---- MODULE Spec2Model ----
(***************************************************************************)
(* Admin panel of the generated project: session guard, CSRF helpers,      *)
(* flash messages and the resource route handlers (list, detail, create,   *)
(* edit, delete, dashboard, login, logout) over one browser session, one   *)
(* registered resource and an in-memory DAO.                               *)
(*                                                                         *)
(* One action per route handler.  A handler runs from its first statement  *)
(* to the response it returns; the variables req, pre, resp, calls and     *)
(* csrf_checked record the request it served, the state it started from,   *)
(* the response, the DAO methods it called and the result of validate_csrf.*)
(***************************************************************************)
EXTENDS Integers, Sequences, FiniteSets, TLC

VARIABLES session, store, provider, registry, req, pre, resp, calls, csrf_checked,
          cookie, inflight, uow, handlers, dispatched, form_call, paging,
          constructed, site_call, txs

\* the state of the requests served one after the other
admin_vars == <<session, store, provider, registry, req, pre, resp, calls, csrf_checked>>

\* the session cookie the browser holds and the requests it has in flight
cookie_vars == <<cookie, inflight>>

\* the unit of work of the command being handled, the handler registries of the two
\* buses, the last registration or dispatch, and a call of the form helpers
app_vars == <<uow, handlers, dispatched, form_call>>

\* a call of compute_pagination, a construction of a ResourceAdmin, a call of a
\* method of the AdminSite, and the units of work of two commands handled at once
lib_vars == <<paging, constructed, site_call, txs>>

vars == <<session, store, provider, registry, req, pre, resp, calls, csrf_checked,
          cookie, inflight, uow, handlers, dispatched, form_call, paging,
          constructed, site_call, txs>>

(* ------------------------------ bounds --------------------------------- *)

\* the times one SqlUnitOfWork is entered
MaxEnters == 3

\* the length of a resource name
MaxNameLen == 3

\* the arguments compute_pagination is called with
MaxPage == 4
MaxPageSize == 3
MaxCount == 7

\* number of record ids the DAO can hold (uuid4 values are drawn from them)
MaxRecords == 2

(* ------------------------------ values --------------------------------- *)

None == "None"

prefix == "/admin"

RecordIds == {ToString(i) : i \in 1..MaxRecords}

\* values secrets.token_urlsafe(32) returns
Tokens == {<<"tok", "1">>, <<"tok", "2">>}

NoToken == <<>>

\* the empty string, as a token
EmptyToken == <<"">>

\* "not token": None and the empty string
Falsy(t) == t \in {NoToken, EmptyToken}

\* texts of the exceptions a failing storage raises
ExcMsgs == {<<"boom", "1">>, <<"boom", "2">>}

NoExc == <<>>

UserIds == {"1", "2"}

\* FieldType
FT_TEXT == "text"
FT_NUMBER == "number"
FT_BOOLEAN == "boolean"
FT_SELECT == "select"

\* FieldConfig(name, label, field_type, required=True, choices=None, readonly=False)
FieldConfig(name, field_type, required, choices, readonly) ==
    [name |-> name, field_type |-> field_type, required |-> required,
     choices |-> choices, readonly |-> readonly]

\* the registered resource: the "users" resource of create_user_resource(), with one
\* text field and the select field of its form
UsersFields ==
    << FieldConfig("name", FT_TEXT, TRUE, <<>>, FALSE),
       FieldConfig("role", FT_SELECT, TRUE,
                   << <<"admin", "Admin">>, <<"user", "User">> >>, FALSE) >>

\* ResourceAdmin(name, form_fields, id_field, page_size); one record per page, so
\* that two records make two pages
UsersResource ==
    [name |-> "users", form_fields |-> UsersFields, id_field |-> "id", page_size |-> 1]

(* ------------------------------ strings -------------------------------- *)

\* str.strip() on the strings that occur in submissions
Strip(v) ==
    CASE v = " " -> ""
      [] v = " 7 " -> "7"
      [] OTHER -> v

\* the strings float() parses
FloatStrings == {"7", "12", "1.5", "1e3", "inf"}

\* the strings int() parses
IntStrings == {"7", "12"}

(* ------------------------------ session -------------------------------- *)

NoFlash == [type |-> "none", message |-> [text |-> "", exc |-> <<>>]]

EmptySession == [admin_user_id |-> None, csrf_token |-> NoToken, flash |-> NoFlash]

\* a clear that removes the user id only
SessionClear_partial(s) == [s EXCEPT !.admin_user_id = None]

\* request.session.clear()
SessionClear(s) == EmptySession

\* set_flash(request, type, message)
set_flash(s, type, message) ==
    [s EXCEPT !.flash = [type |-> type, message |-> message]]

\* a get_flash that reads "_flash" and leaves it in the session
get_flash_peek(s) == [flash |-> s.flash, session |-> s]

\* get_flash(request): pop "_flash"
get_flash(s) == [flash |-> s.flash, session |-> [s EXCEPT !.flash = NoFlash]]

\* a get_csrf_token that issues a new token on every call
get_csrf_token_fresh(s, t) == [token |-> t, session |-> [s EXCEPT !.csrf_token = t]]

\* get_csrf_token(request), with t the value secrets.token_urlsafe returns
get_csrf_token(s, t) ==
    IF Falsy(s.csrf_token)
        THEN [token |-> t, session |-> [s EXCEPT !.csrf_token = t]]
        ELSE [token |-> s.csrf_token, session |-> s]

\* a guard that accepts whenever a token was submitted
validate_csrf_any(s, submitted_token) ==
    submitted_token # NoToken

\* a guard that compares the two tokens and nothing else
validate_csrf_eq(s, submitted_token) == s.csrf_token = submitted_token

\* validate_csrf(request, submitted_token)
validate_csrf(s, submitted_token) ==
    IF Falsy(s.csrf_token) \/ Falsy(submitted_token)
        THEN FALSE
        ELSE s.csrf_token = submitted_token

(* --------------------------- auth provider ----------------------------- *)

\* AdminAuthProvider.get_user(user_id): "admin", "plain" (is_admin false) or "gone"
get_user(p, user_id) == p[user_id]

\* AdminAuthProvider.authenticate(username, password): the id it resolves to
Credentials == {"admin", "nonadmin", "wrong"}

authenticate(p, cred) ==
    CASE cred = "admin" /\ p["1"] # "gone" -> "1"
      [] cred = "nonadmin" /\ p["2"] # "gone" -> "2"
      [] OTHER -> None

LoginUrl == <<prefix, "login">>

\* a guard that does not look at is_admin
require_admin_noflag(s, p) ==
    IF s.admin_user_id = None
        THEN [ok |-> FALSE, session |-> s]
        ELSE IF get_user(p, s.admin_user_id) = "gone"
            THEN [ok |-> FALSE, session |-> SessionClear(s)]
            ELSE [ok |-> TRUE, session |-> s]

\* require_admin(request): ok with the session untouched, or a redirect to login
require_admin(s, p) ==
    IF s.admin_user_id = None
        THEN [ok |-> FALSE, session |-> s]
        ELSE IF get_user(p, s.admin_user_id) # "admin"
            THEN [ok |-> FALSE, session |-> SessionClear(s)]
            ELSE [ok |-> TRUE, session |-> s]

(* ------------------------------- forms --------------------------------- *)

\* data.get(field.name, "")
RawGet(raw, name) == IF name \in DOMAIN raw THEN raw[name] ELSE ""

NoErrors == [n \in {} |-> ""]

FieldIndexes(fields) == {i \in 1..Len(fields) : ~fields[i].readonly}

ChoiceValues(field) == {field.choices[i][1] : i \in 1..Len(field.choices)}

\* the loop body with int() in place of float()
FieldError_int(field, data) ==
    LET value == Strip(RawGet(data, field.name)) IN
    IF field.required /\ field.field_type # FT_BOOLEAN /\ value = ""
        THEN "This field is required."
        ELSE IF value # "" /\ field.field_type = FT_SELECT /\ Len(field.choices) > 0
                   /\ value \notin ChoiceValues(field)
            THEN "Invalid choice."
            ELSE IF value # "" /\ field.field_type = FT_NUMBER /\ value \notin IntStrings
                THEN "Must be a number."
                ELSE ""

\* one pass of the loop body of validate_form: the message the field gets, or ""
FieldError(field, data) ==
    LET value == Strip(RawGet(data, field.name)) IN
    IF field.required /\ field.field_type # FT_BOOLEAN /\ value = ""
        THEN "This field is required."
        ELSE IF value # "" /\ field.field_type = FT_SELECT /\ Len(field.choices) > 0
                   /\ value \notin ChoiceValues(field)
            THEN "Invalid choice."
            ELSE IF value # "" /\ field.field_type = FT_NUMBER /\ value \notin FloatStrings
                THEN "Must be a number."
                ELSE ""

\* the errors dict built by the loop (a later field of the same name overwrites)
ErrorsOf(fields, data) ==
    LET bad == {i \in FieldIndexes(fields) : FieldError(fields[i], data) # ""}
        last(n) == CHOOSE i \in bad : fields[i].name = n
                       /\ \A j \in bad : fields[j].name = n => j <= i
    IN [n \in {fields[i].name : i \in bad} |-> FieldError(fields[last(n)], data)]

\* validate_form(fields, data) of views/forms.py
validate_form(fields, data) == ErrorsOf(fields, data)

\* _validate_form(fields, data) of views/resource_create.py
_validate_form(fields, data) == ErrorsOf(fields, data)

\* typed values of a coerced form
StrVal(v) == [t |-> "str", v |-> v]
IntVal(v) == [t |-> "int", v |-> v]
FloatVal(v) == [t |-> "float", v |-> v]
BoolVal(b) == [t |-> "bool", v |-> IF b THEN "True" ELSE "False"]
NoneVal == [t |-> "None", v |-> ""]
Raised == [t |-> "ValueError", v |-> ""]

\* the strings that contain a "."
DotStrings == {"1.5", "a.b"}

\* the loop body of coerce_form_data: int(value), else float(value)
CoerceShared(field, raw) ==
    LET value == Strip(RawGet(raw, field.name)) IN
    IF field.field_type = FT_BOOLEAN THEN BoolVal(field.name \in DOMAIN raw)
    ELSE IF field.field_type = FT_NUMBER /\ value # ""
        THEN IF value \in IntStrings THEN IntVal(value)
             ELSE IF value \in FloatStrings THEN FloatVal(value) ELSE Raised
    ELSE IF value # "" THEN StrVal(value)
    ELSE IF ~field.required THEN NoneVal ELSE StrVal("")

\* the loop body of _coerce_form_data: float(value) if "." in value else int(value)
CoercePrivate(field, raw) ==
    LET value == Strip(RawGet(raw, field.name)) IN
    IF field.field_type = FT_BOOLEAN THEN BoolVal(field.name \in DOMAIN raw)
    ELSE IF field.field_type = FT_NUMBER /\ value # ""
        THEN IF value \in DotStrings
                 THEN IF value \in FloatStrings THEN FloatVal(value) ELSE Raised
                 ELSE IF value \in IntStrings THEN IntVal(value) ELSE Raised
    ELSE IF value # "" THEN StrVal(value)
    ELSE IF ~field.required THEN NoneVal ELSE StrVal("")

\* of the fields of one name, the loop assigns the last one's value
LastNamed(fields, n) ==
    CHOOSE i \in FieldIndexes(fields) :
        fields[i].name = n /\ \A j \in FieldIndexes(fields) : fields[j].name = n => j <= i

FieldNames(fields) == {fields[i].name : i \in FieldIndexes(fields)}

\* coerce_form_data(fields, raw) of views/forms.py: the dict, or the ValueError
coerce_form_data(fields, raw) ==
    [raises |-> \E i \in FieldIndexes(fields) : CoerceShared(fields[i], raw) = Raised,
     value |-> [n \in FieldNames(fields) |->
                   CoerceShared(fields[LastNamed(fields, n)], raw)]]

\* _coerce_form_data(fields, raw) of views/resource_create.py
_coerce_form_data(fields, raw) ==
    [raises |-> \E i \in FieldIndexes(fields) : CoercePrivate(fields[i], raw) = Raised,
     value |-> [n \in FieldNames(fields) |->
                   CoercePrivate(fields[LastNamed(fields, n)], raw)]]

(* -------------------------------- DAO ---------------------------------- *)

NoData == [n \in {} |-> NoneVal]

NoRecord == [present |-> FALSE, data |-> NoData]

Record(data) == [present |-> TRUE, data |-> data]

Returned(st) == [raised |-> FALSE, exc |-> NoExc, store |-> st]

Raise(st, exc) == [raised |-> TRUE, exc |-> exc, store |-> st]

\* InMemoryUserDAO.get
dao_get(st, id) == st[id]

\* InMemoryUserDAO.list: (len(items), total)
dao_list(st, offset, limit) ==
    LET total == Cardinality({i \in DOMAIN st : st[i].present})
        lo == IF offset < total THEN offset ELSE total
        hi == IF offset + limit < total THEN offset + limit ELSE total
    IN [total |-> total, n_items |-> IF limit > 0 THEN hi - lo ELSE total]

\* InMemoryUserDAO.create, uid the value of uuid.uuid4()
dao_create(st, data, uid) == Returned([st EXCEPT ![uid] = Record(data)])

\* dict.update
DictUpdate(old, new) ==
    [k \in DOMAIN old \cup DOMAIN new |-> IF k \in DOMAIN new THEN new[k] ELSE old[k]]

\* InMemoryUserDAO.update
dao_update(st, id, data) ==
    IF ~st[id].present
        THEN Raise(st, <<"Record not found", id>>)
        ELSE Returned([st EXCEPT ![id] = Record(DictUpdate(st[id].data, data))])

\* InMemoryUserDAO.delete
dao_delete(st, id) ==
    IF ~st[id].present
        THEN Raise(st, <<"Record not found", id>>)
        ELSE Returned([st EXCEPT ![id] = NoRecord])

\* an AdminDAO whose storage fails with exception text fail before it writes
DaoCall(st, fail, result) == IF fail # NoExc THEN Raise(st, fail) ELSE result

Call(op, raised) == [op |-> op, raised |-> raised]

(* ------------------------------- site ---------------------------------- *)

NoResource == [name |-> "", form_fields |-> <<>>, id_field |-> "", page_size |-> 0]

\* AdminSite.get_resource(name)
get_resource(reg, name) ==
    IF \E i \in 1..Len(reg) : reg[i].name = name
        THEN [found |-> TRUE,
              resource |-> reg[CHOOSE i \in 1..Len(reg) : reg[i].name = name]]
        ELSE [found |-> FALSE, resource |-> NoResource]

NoListing == [page |-> 0, total_count |-> 0, n_items |-> 0, total_pages |-> 0,
              has_prev |-> FALSE, has_next |-> FALSE]

NoMessage == [text |-> "", arg |-> ""]

CtxGet(ctx, key, default) == IF key \in DOMAIN ctx THEN ctx[key] ELSE default

NoHtml == [template |-> "", flash |-> NoFlash, errors |-> NoErrors,
           message |-> NoMessage, error |-> "", csrf_token |-> NoToken,
           listing |-> NoListing]

\* AdminSite.render(template_name, request, **context): the flash is popped and the
\* template gets the flash and the context, which is all a page can show
render(s, template_name, context) ==
    LET f == get_flash(s) IN
    [session |-> f.session,
     html |-> [template |-> template_name,
               flash |-> f.flash,
               errors |-> CtxGet(context, "errors", NoErrors),
               message |-> CtxGet(context, "message", NoMessage),
               error |-> CtxGet(context, "error", ""),
               csrf_token |-> CtxGet(context, "csrf_token", NoToken),
               listing |-> CtxGet(context, "listing", NoListing)]]

HTMLResponse(html, status_code) ==
    [status |-> status_code, location |-> <<>>, html |-> html]

\* RedirectResponse(url) with the status code left to its default
RedirectResponse_default(url) == [status |-> 307, location |-> url, html |-> NoHtml]

\* RedirectResponse(url=url, status_code=303)
RedirectResponse(url) == [status |-> 303, location |-> url, html |-> NoHtml]

\* an exception that leaves the handler: the server answers 500
ServerError == [status |-> 500, location |-> <<>>, html |-> NoHtml]

NoResponse == [status |-> 0, location |-> <<>>, html |-> NoHtml]

\* what validate_csrf returned in the handler, if it was called
Unchecked == "not called"
CsrfAccepts == "True"
CsrfRejects == "False"

Result(s, st, response, cs, ck) ==
    [session |-> s, store |-> st, resp |-> response, calls |-> cs, csrf_checked |-> ck]

\* the "if isinstance(user, RedirectResponse): return user" of every protected view
LoginRedirect(a, st) == Result(a.session, st, RedirectResponse(LoginUrl), <<>>, Unchecked)

\* the 404 page of an unregistered resource
ResourceNotFound(s, st, resource_name) ==
    LET r == render(s, "admin/404.html",
                    [message |-> [text |-> "Resource not found.", arg |-> resource_name]])
    IN Result(r.session, st, HTMLResponse(r.html, 404), <<>>, Unchecked)

\* a view that renders the page of a record dao.get did not find
RecordNotFound_shown(s, st, record_id) ==
    LET r == render(s, "admin/detail.html", [errors |-> NoErrors])
    IN Result(r.session, st, HTMLResponse(r.html, 200), <<Call("get", FALSE)>>, Unchecked)

\* the 404 page of a record dao.get did not find
RecordNotFound(s, st, record_id) ==
    LET r == render(s, "admin/404.html",
                    [message |-> [text |-> "Record not found.", arg |-> record_id]])
    IN Result(r.session, st, HTMLResponse(r.html, 404), <<Call("get", FALSE)>>, Unchecked)

\* the pagination with the quotient rounded down
compute_pagination_floor(page, page_size, total_count) ==
    LET floor == IF page_size > 0 THEN total_count \div page_size ELSE 0
        total_pages == IF page_size > 0 THEN (IF floor > 1 THEN floor ELSE 1) ELSE 1
    IN [offset |-> (page - 1) * page_size, total_pages |-> total_pages,
        has_prev |-> page > 1, has_next |-> page < total_pages]

\* compute_pagination(page, page_size, total_count), with the page shown
compute_pagination(page, page_size, total_count) ==
    LET ceil == IF page_size > 0
                    THEN (total_count + page_size - 1) \div page_size ELSE 0
        total_pages == IF page_size > 0 THEN (IF ceil > 1 THEN ceil ELSE 1) ELSE 1
    IN [offset |-> (page - 1) * page_size, total_pages |-> total_pages,
        has_prev |-> page > 1, has_next |-> page < total_pages]

(* ------------------------------ handlers ------------------------------- *)
(* handler(s, st, p, reg, rq): the session and store the handler leaves,   *)
(* its response, the DAO calls it made and what validate_csrf returned.    *)

\* login_page
login_page(s, st, p, reg, rq) ==
    IF s.admin_user_id # None /\ get_user(p, s.admin_user_id) = "admin"
        THEN Result(s, st, RedirectResponse(<<prefix, "">>), <<>>, Unchecked)
        ELSE LET r == render(s, "admin/login.html", [error |-> ""])
             IN Result(r.session, st, HTMLResponse(r.html, 200), <<>>, Unchecked)

\* a login that accepts every principal the provider authenticates
login_submit_noflag(s, st, p, reg, rq) ==
    LET user == authenticate(p, rq.cred) IN
    IF user # None
        THEN Result([s EXCEPT !.admin_user_id = user], st,
                    RedirectResponse(<<prefix, "">>), <<>>, Unchecked)
        ELSE LET r == render(s, "admin/login.html",
                             [error |-> "Invalid username or password."])
             IN Result(r.session, st, HTMLResponse(r.html, 200), <<>>, Unchecked)

\* login_submit
login_submit(s, st, p, reg, rq) ==
    LET user == authenticate(p, rq.cred) IN
    IF user # None /\ get_user(p, user) = "admin"
        THEN Result([s EXCEPT !.admin_user_id = user], st,
                    RedirectResponse(<<prefix, "">>), <<>>, Unchecked)
        ELSE LET r == render(s, "admin/login.html",
                             [error |-> "Invalid username or password."])
             IN Result(r.session, st, HTMLResponse(r.html, 200), <<>>, Unchecked)

\* logout
logout(s, st, p, reg, rq) ==
    Result(SessionClear(s), st, RedirectResponse(LoginUrl), <<>>, Unchecked)

\* dashboard
dashboard(s, st, p, reg, rq) ==
    LET a == require_admin(s, p) IN
    IF ~a.ok THEN LoginRedirect(a, st)
    ELSE LET r == render(s, "admin/dashboard.html",
                         [listing |-> [NoListing EXCEPT
                                          !.total_count = dao_list(st, 0, 0).total]])
         IN Result(r.session, st, HTMLResponse(r.html, 200),
                   [i \in 1..Len(reg) |-> Call("list", FALSE)], Unchecked)

\* resource_list
resource_list(s, st, p, reg, rq) ==
    LET a == require_admin(s, p)
        res == get_resource(reg, rq.resource_name)
    IN
    IF ~a.ok THEN LoginRedirect(a, st)
    ELSE IF ~res.found THEN ResourceNotFound(s, st, rq.resource_name)
    ELSE LET page == IF rq.page < 1 THEN 1 ELSE rq.page
             size == res.resource.page_size
             got == dao_list(st, (page - 1) * size, size)
             pg == compute_pagination(page, size, got.total)
             r == render(s, "admin/list.html",
                         [listing |-> [page |-> page, total_count |-> got.total,
                                       n_items |-> got.n_items,
                                       total_pages |-> pg.total_pages,
                                       has_prev |-> pg.has_prev,
                                       has_next |-> pg.has_next]])
         IN Result(r.session, st, HTMLResponse(r.html, 200),
                   <<Call("list", FALSE)>>, Unchecked)

\* the views that show one record: resolve the resource, dao.get, render
RecordPage(s, st, p, reg, rq, template_name) ==
    LET a == require_admin(s, p)
        res == get_resource(reg, rq.resource_name)
    IN
    IF ~a.ok THEN LoginRedirect(a, st)
    ELSE IF ~res.found THEN ResourceNotFound(s, st, rq.resource_name)
    ELSE IF ~dao_get(st, rq.record_id).present THEN RecordNotFound(s, st, rq.record_id)
    ELSE LET r == render(s, template_name, [errors |-> NoErrors])
         IN Result(r.session, st, HTMLResponse(r.html, 200),
                   <<Call("get", FALSE)>>, Unchecked)

\* resource_detail
resource_detail(s, st, p, reg, rq) == RecordPage(s, st, p, reg, rq, "admin/detail.html")

\* resource_edit_form
resource_edit_form(s, st, p, reg, rq) == RecordPage(s, st, p, reg, rq, "admin/form.html")

\* resource_delete_confirm
resource_delete_confirm(s, st, p, reg, rq) ==
    RecordPage(s, st, p, reg, rq, "admin/delete_confirm.html")

\* resource_create_form
resource_create_form(s, st, p, reg, rq) ==
    LET a == require_admin(s, p)
        res == get_resource(reg, rq.resource_name)
    IN
    IF ~a.ok THEN LoginRedirect(a, st)
    ELSE IF ~res.found THEN ResourceNotFound(s, st, rq.resource_name)
    ELSE LET r == render(s, "admin/form.html", [errors |-> NoErrors])
         IN Result(r.session, st, HTMLResponse(r.html, 200), <<>>, Unchecked)

\* the form re-rendered with its errors
FormInvalid(s, st, errors, ck) ==
    LET r == render(s, "admin/form.html", [errors |-> errors])
    IN Result(r.session, st, HTMLResponse(r.html, 200), <<>>, ck)

\* a create that stores a form the validation refused
CreateRecord_unvalidated(s, st, resource, rq) ==
    LET coerced == _coerce_form_data(resource.form_fields, rq.form.data)
        out == DaoCall(st, rq.fail, dao_create(st, coerced.value, rq.uid))
    IN Result(set_flash(s, "success", [text |-> "Record created.", exc |-> NoExc]),
              out.store, RedirectResponse(<<prefix, resource.name, "">>),
              <<Call("create", out.raised)>>, Unchecked)

\* resource_create_submit from "form = await request.form()" on
CreateRecord(s, st, resource, rq) ==
    LET errors == _validate_form(resource.form_fields, rq.form.data)
        coerced == _coerce_form_data(resource.form_fields, rq.form.data)
        out == DaoCall(st, rq.fail, dao_create(st, coerced.value, rq.uid))
    IN
    IF DOMAIN errors # {} THEN FormInvalid(s, st, errors, Unchecked)
    ELSE IF coerced.raises THEN Result(s, st, ServerError, <<>>, Unchecked)
    ELSE IF ~out.raised
        THEN Result(set_flash(s, "success", [text |-> "Record created.", exc |-> NoExc]),
                    out.store, RedirectResponse(<<prefix, resource.name, "">>),
                    <<Call("create", FALSE)>>, Unchecked)
        ELSE LET r == render(set_flash(s, "error", [text |-> "Error creating record: ",
                                                    exc |-> out.exc]),
                             "admin/form.html", [errors |-> NoErrors])
             IN Result(r.session, out.store, HTMLResponse(r.html, 200),
                       <<Call("create", TRUE)>>, Unchecked)

\* resource_create_submit
resource_create_submit(s, st, p, reg, rq) ==
    LET a == require_admin(s, p)
        res == get_resource(reg, rq.resource_name)
    IN
    IF ~a.ok THEN LoginRedirect(a, st)
    ELSE IF ~res.found THEN ResourceNotFound(s, st, rq.resource_name)
    ELSE CreateRecord(s, st, res.resource, rq)

\* the rejection of a submission whose CSRF token did not validate
CsrfRejected(s, st, url) ==
    Result(set_flash(s, "error", [text |-> "Invalid or missing CSRF token.",
                                  exc |-> NoExc]),
           st, RedirectResponse(url), <<>>, CsrfRejects)

\* resource_edit_submit from "errors = validate_form(...)" on
UpdateRecord(s, st, resource, rq) ==
    LET errors == validate_form(resource.form_fields, rq.form.data)
        coerced == coerce_form_data(resource.form_fields, rq.form.data)
        out == DaoCall(st, rq.fail, dao_update(st, rq.record_id, coerced.value))
    IN
    IF DOMAIN errors # {} THEN FormInvalid(s, st, errors, CsrfAccepts)
    ELSE IF coerced.raises THEN Result(s, st, ServerError, <<>>, CsrfAccepts)
    ELSE IF ~out.raised
        THEN Result(set_flash(s, "success", [text |-> "Record updated.", exc |-> NoExc]),
                    out.store,
                    RedirectResponse(<<prefix, resource.name, rq.record_id>>),
                    <<Call("update", FALSE)>>, CsrfAccepts)
        ELSE LET r == render(set_flash(s, "error",
                                 [text |-> "An error occurred while updating the record.",
                                  exc |-> NoExc]),
                             "admin/form.html", [errors |-> NoErrors])
             IN Result(r.session, out.store, HTMLResponse(r.html, 200),
                       <<Call("update", TRUE)>>, CsrfAccepts)

\* resource_edit_submit
resource_edit_submit(s, st, p, reg, rq) ==
    LET a == require_admin(s, p)
        res == get_resource(reg, rq.resource_name)
    IN
    IF ~a.ok THEN LoginRedirect(a, st)
    ELSE IF ~res.found THEN ResourceNotFound(s, st, rq.resource_name)
    ELSE IF ~validate_csrf(s, rq.form.csrf_token)
        THEN CsrfRejected(s, st, <<prefix, rq.resource_name, rq.record_id, "edit">>)
    ELSE UpdateRecord(s, st, res.resource, rq)

\* a delete without the try/except around the DAO call
DeleteRecord_propagate(s, st, resource, rq) ==
    LET out == DaoCall(st, rq.fail, dao_delete(st, rq.record_id)) IN
    IF ~out.raised
        THEN Result(set_flash(s, "success", [text |-> "Record deleted.", exc |-> NoExc]),
                    out.store, RedirectResponse(<<prefix, resource.name, "">>),
                    <<Call("delete", FALSE)>>, CsrfAccepts)
        ELSE Result(s, out.store, ServerError, <<Call("delete", TRUE)>>, CsrfAccepts)

\* resource_delete_submit from "try: await resource.dao.delete(record_id)" on
DeleteRecord(s, st, resource, rq) ==
    LET out == DaoCall(st, rq.fail, dao_delete(st, rq.record_id)) IN
    IF ~out.raised
        THEN Result(set_flash(s, "success", [text |-> "Record deleted.", exc |-> NoExc]),
                    out.store, RedirectResponse(<<prefix, resource.name, "">>),
                    <<Call("delete", FALSE)>>, CsrfAccepts)
        ELSE Result(set_flash(s, "error",
                        [text |-> "An error occurred while deleting the record.",
                         exc |-> NoExc]),
                    out.store,
                    RedirectResponse(<<prefix, resource.name, rq.record_id>>),
                    <<Call("delete", TRUE)>>, CsrfAccepts)

\* resource_delete_submit
resource_delete_submit(s, st, p, reg, rq) ==
    LET a == require_admin(s, p)
        res == get_resource(reg, rq.resource_name)
    IN
    IF ~a.ok THEN LoginRedirect(a, st)
    ELSE IF ~res.found
        THEN Result(set_flash(s, "error", [text |-> "Resource not found.", exc |-> NoExc]),
                    st, RedirectResponse(<<prefix, "">>), <<>>, Unchecked)
    ELSE IF ~validate_csrf(s, rq.form.csrf_token)
        THEN CsrfRejected(s, st, <<prefix, rq.resource_name, rq.record_id, "delete">>)
    ELSE DeleteRecord(s, st, res.resource, rq)

(* ------------------------------ requests ------------------------------- *)

EmptyRaw == [n \in {} |-> ""]

NoForm == [csrf_token |-> NoToken, data |-> EmptyRaw]

NoRequest ==
    [route |-> "", method |-> "", resource_name |-> "", record_id |-> "", page |-> 0,
     form |-> NoForm, fail |-> NoExc, cred |-> "", uid |-> ""]

\* the submissions of the resource's form
RawForms ==
    {[name |-> "Al", role |-> "admin"], [name |-> "Al", role |-> "user"],
     [name |-> "", role |-> "admin"], [name |-> "Al", role |-> "root"]}

SubmittedTokens == Tokens \cup {NoToken}

Forms == {[csrf_token |-> t, data |-> d] : t \in SubmittedTokens, d \in RawForms}

\* the delete confirmation form has the token and no field
TokenForms == {[csrf_token |-> t, data |-> EmptyRaw] : t \in SubmittedTokens}

Failures == ExcMsgs \cup {NoExc}

Pages == {1, 2}

Get(route) == [NoRequest EXCEPT !.route = route, !.method = "GET"]

Post(route) == [NoRequest EXCEPT !.route = route, !.method = "POST"]

FreshIds(st) == {i \in RecordIds : ~st[i].present}

(* A handler returns before it reads the form when the resource is not     *)
(* registered, and the DAO can only fail when it is called with a form the *)
(* validation accepted: the requests below vary an input only where a      *)
(* handler can read it.                                                    *)

Unregistered == "widgets"

ValidForms == {f \in Forms : DOMAIN ErrorsOf(UsersFields, f.data) = {}}

ListRequests ==
    {[Get("list") EXCEPT !.resource_name = "users", !.page = pg] : pg \in Pages}
    \cup {[Get("list") EXCEPT !.resource_name = Unregistered, !.page = 1]}

RecordRequests(route) ==
    {[Get(route) EXCEPT !.resource_name = "users", !.record_id = id] : id \in RecordIds}
    \cup {[Get(route) EXCEPT !.resource_name = Unregistered, !.record_id = "1"]}

CreateRequests(st) ==
    {[Post("create") EXCEPT !.resource_name = "users", !.form = f, !.uid = uid] :
        f \in Forms, uid \in FreshIds(st)}
    \cup {[Post("create") EXCEPT !.resource_name = "users", !.form = f, !.uid = uid,
                                 !.fail = x] :
        f \in ValidForms, uid \in FreshIds(st), x \in ExcMsgs}
    \cup {[Post("create") EXCEPT !.resource_name = Unregistered]}

EditRequests ==
    {[Post("edit") EXCEPT !.resource_name = "users", !.record_id = id, !.form = f] :
        id \in RecordIds, f \in Forms}
    \cup {[Post("edit") EXCEPT !.resource_name = "users", !.record_id = id, !.form = f,
                               !.fail = x] :
        id \in RecordIds, f \in ValidForms, x \in ExcMsgs}
    \cup {[Post("edit") EXCEPT !.resource_name = Unregistered, !.record_id = "1"]}

DeleteRequests ==
    {[Post("delete") EXCEPT !.resource_name = "users", !.record_id = id, !.form = f,
                             !.fail = x] :
        id \in RecordIds, f \in TokenForms, x \in Failures}
    \cup {[Post("delete") EXCEPT !.resource_name = Unregistered, !.record_id = "1"]}

(* --------------------------- unit of work ------------------------------ *)
(* The command handlers of the application layer, each run inside          *)
(* "async with uow": SqlUnitOfWork opens a transaction, the repositories   *)
(* read and write through it, and leaving the block ends the transaction.  *)

Emails == {"a@x", "b@x"}

Passwords == {"pw1", "pw2"}

RefreshTokenIds == {"r1", "r2", "r3"}

Absent == "absent"

NoError == "none"

\* the rows of the database: the password hash stored per user, the state per token
NoRows ==
    [users |-> [e \in Emails |-> Absent], tokens |-> [t \in RefreshTokenIds |-> "none"]]

NoCommand ==
    [type |-> "", email |-> "", password |-> "", new_password |-> "", token |-> "",
     jwt |-> "", late |-> FALSE, new_token |-> ""]

\* token ids create_refresh_token has not handed out
UnusedTokenIds(rows) == {t \in RefreshTokenIds : rows.tokens[t] = "none"}

\* the commands a request can carry; new_token is the id create_refresh_token draws,
\* jwt what decode_token finds in the submitted token, late whether the stored token
\* has expired when the command runs
Commands(rows) ==
    {[NoCommand EXCEPT !.type = "register", !.email = e, !.password = pw,
                       !.new_token = n] :
        e \in Emails, pw \in Passwords, n \in UnusedTokenIds(rows)}
    \cup {[NoCommand EXCEPT !.type = "create_user", !.email = e] : e \in Emails}
    \cup {[NoCommand EXCEPT !.type = "login", !.email = e, !.password = pw,
                            !.new_token = n] :
        e \in Emails, pw \in Passwords, n \in UnusedTokenIds(rows)}
    \cup {[NoCommand EXCEPT !.type = "logout", !.token = t] : t \in RefreshTokenIds}
    \cup {[NoCommand EXCEPT !.type = "refresh", !.token = t, !.jwt = j, !.late = l,
                            !.new_token = n] :
        t \in RefreshTokenIds, j \in {"refresh", "access", "undecodable"},
        l \in BOOLEAN, n \in UnusedTokenIds(rows)}
    \cup {[NoCommand EXCEPT !.type = "change_password", !.email = e, !.password = pw,
                            !.new_password = np] :
        e \in Emails \cup {"malformed"}, pw \in Passwords, np \in Passwords}

\* what a handler raises before it reaches "async with uow"; INVALID_TOKEN,
\* TOKEN_REVOKED and TOKEN_EXPIRED are the codes of the AuthenticationError of
\* handle_refresh_token
BeforeScope(cmd) ==
    CASE cmd.type = "refresh" /\ cmd.jwt # "refresh" -> "INVALID_TOKEN"
      [] cmd.type = "change_password" /\ cmd.email = "malformed" -> "ValidationError"
      [] OTHER -> NoError

\* the outcome of one repository call of a handler's body
Continue(rows) == [tx |-> rows, raise |-> NoError, end |-> FALSE]
End(rows) == [tx |-> rows, raise |-> NoError, end |-> TRUE]
Raises(rows, error) == [tx |-> rows, raise |-> error, end |-> TRUE]

\* UserRepository.save
SaveUser(rows, email, password_hash) ==
    [rows EXCEPT !.users[email] = password_hash]

\* RefreshTokenRepository.save
SaveToken(rows, token_id) == [rows EXCEPT !.tokens[token_id] = "active"]

\* RefreshTokenRepository.revoke
RevokeToken(rows, token_id) == [rows EXCEPT !.tokens[token_id] = "revoked"]

\* handle_register_user, the k-th repository call of its body
handle_register_user(cmd, rows, k) ==
    CASE k = 1 -> IF rows.users[cmd.email] # Absent
                      THEN Raises(rows, "ConflictError") ELSE Continue(rows)
      [] k = 2 -> Continue(SaveUser(rows, cmd.email, cmd.password))
      [] OTHER -> End(SaveToken(rows, cmd.new_token))

\* handle_create_user
handle_create_user(cmd, rows, k) == End(SaveUser(rows, cmd.email, ""))

\* handle_login_user
handle_login_user(cmd, rows, k) ==
    CASE k = 1 -> IF rows.users[cmd.email] = Absent
                         \/ rows.users[cmd.email] # cmd.password
                      THEN Raises(rows, "AuthenticationError") ELSE Continue(rows)
      [] OTHER -> End(SaveToken(rows, cmd.new_token))

\* handle_logout_user
handle_logout_user(cmd, rows, k) ==
    CASE k = 1 -> IF rows.tokens[cmd.token] = "active" THEN Continue(rows) ELSE End(rows)
      [] OTHER -> End(RevokeToken(rows, cmd.token))

\* handle_refresh_token that issues the new pair and leaves the old token
handle_refresh_token_keep(cmd, rows, k) ==
    CASE k = 1 -> IF rows.tokens[cmd.token] # "active"
                      THEN Raises(rows, "TOKEN_REVOKED")
                      ELSE IF cmd.late THEN Raises(rows, "TOKEN_EXPIRED")
                      ELSE Continue(rows)
      [] k = 2 -> Continue(rows)
      [] OTHER -> End(SaveToken(rows, cmd.new_token))

\* handle_refresh_token
handle_refresh_token(cmd, rows, k) ==
    CASE k = 1 -> IF rows.tokens[cmd.token] # "active"
                      THEN Raises(rows, "TOKEN_REVOKED")
                      ELSE IF cmd.late THEN Raises(rows, "TOKEN_EXPIRED")
                      ELSE Continue(rows)
      [] k = 2 -> Continue(RevokeToken(rows, cmd.token))
      [] OTHER -> End(SaveToken(rows, cmd.new_token))

\* handle_change_password
handle_change_password(cmd, rows, k) ==
    CASE k = 1 -> IF rows.users[cmd.email] = Absent
                      THEN Raises(rows, "NotFoundError")
                      ELSE IF rows.users[cmd.email] # cmd.password
                          THEN Raises(rows, "AuthenticationError") ELSE Continue(rows)
      [] OTHER -> End(SaveUser(rows, cmd.email, cmd.new_password))

\* the k-th repository call of the body of the command's handler; a call the
\* database fails raises DatabaseError and writes nothing
Body(cmd, rows, k, fails) ==
    IF fails THEN Raises(rows, "DatabaseError")
    ELSE CASE cmd.type = "register" -> handle_register_user(cmd, rows, k)
           [] cmd.type = "create_user" -> handle_create_user(cmd, rows, k)
           [] cmd.type = "login" -> handle_login_user(cmd, rows, k)
           [] cmd.type = "logout" -> handle_logout_user(cmd, rows, k)
           [] cmd.type = "refresh" -> handle_refresh_token(cmd, rows, k)
           [] OTHER -> handle_change_password(cmd, rows, k)

\* the unit of work of one command: db the committed rows, tx the rows as the open
\* transaction sees them, before the committed rows when the command arrived, k the
\* repository call the body is at, failed_at the call that raised (0: none)
\* a read of a repository property of the unit of work: the property, where the
\* unit of work was, and what the read gave
NoRead == [property |-> "", pc |-> "", result |-> ""]

\* _transaction, _user_repository and _refresh_token_repository are the attributes
\* of the SqlUnitOfWork (None after __init__), read the last read of a repository
\* property
UowIdle ==
    [cmd |-> NoCommand, pc |-> "idle", k |-> 0, db |-> NoRows, tx |-> NoRows,
     before |-> NoRows, exc |-> NoError, failed_at |-> 0, entered |-> 0, exited |-> 0,
     outcome |-> NoError, _transaction |-> None, _user_repository |-> None,
     _refresh_token_repository |-> None, read |-> NoRead]

\* the properties user_repository and refresh_token_repository of SqlUnitOfWork:
\* the repository, or the RuntimeError "UnitOfWork not entered"
repository(u, property) ==
    LET attribute == IF property = "user_repository"
                         THEN u._user_repository ELSE u._refresh_token_repository
    IN IF attribute = None THEN "RuntimeError" ELSE attribute

\* a handler is called with a command and a fresh SqlUnitOfWork
handler_called(u, cmd) ==
    IF BeforeScope(cmd) # NoError
        THEN [UowIdle EXCEPT !.cmd = cmd, !.pc = "done", !.db = u.db, !.tx = u.db,
                             !.before = u.db, !.outcome = BeforeScope(cmd)]
        ELSE [UowIdle EXCEPT !.cmd = cmd, !.pc = "enter", !.db = u.db, !.tx = u.db,
                             !.before = u.db]

\* SqlUnitOfWork.__aenter__: the transaction is opened, or the engine raises
aenter(u, opened) ==
    IF opened
        THEN [u EXCEPT !.pc = "body", !.k = 1, !.tx = u.db, !.entered = @ + 1,
                       !._transaction = "transaction",
                       !._user_repository = "UserRepository",
                       !._refresh_token_repository = "RefreshTokenRepository"]
        ELSE [u EXCEPT !.pc = "done", !.outcome = "Exception"]

\* one repository call inside the block
body_step(u, fails) ==
    LET r == Body(u.cmd, u.tx, u.k, fails) IN
    IF r.raise # NoError
        THEN [u EXCEPT !.pc = "exit", !.tx = r.tx, !.exc = r.raise, !.failed_at = u.k]
        ELSE IF r.end THEN [u EXCEPT !.pc = "exit", !.tx = r.tx]
        ELSE [u EXCEPT !.k = @ + 1, !.tx = r.tx]

\* an __aexit__ that commits whatever the block did
aexit_commit(u, tx_ok) ==
    [u EXCEPT !.pc = "done", !.exited = @ + 1,
              !.db = IF tx_ok THEN u.tx ELSE u.db,
              !.outcome = IF ~tx_ok THEN "DatabaseError"
                          ELSE IF u.exc = NoError THEN "returned" ELSE u.exc]

\* SqlUnitOfWork.__aexit__: the transaction's __aexit__ commits after a block that
\* did not raise and rolls back otherwise; when it raises itself (tx_ok false)
\* nothing is committed and DatabaseError is raised in its place
aexit(u, tx_ok) ==
    [u EXCEPT !.pc = "done", !.exited = @ + 1,
              !.db = IF u.exc = NoError /\ tx_ok THEN u.tx ELSE u.db,
              !.outcome = IF ~tx_ok THEN "DatabaseError"
                          ELSE IF u.exc = NoError THEN "returned" ELSE u.exc]

(* -------------------------------- buses -------------------------------- *)
(* CommandBus and QueryBus: each class keeps its own _handlers dict, keyed  *)
(* by message type; the handler decorator registers, dispatch looks up      *)
(* type(message).                                                           *)

Buses == {"command", "query"}

\* message types; SubCommand is a subclass of CreateUserCommand
MessageTypes == {"CreateUserCommand", "SubCommand", "GetUserQuery"}

BaseOf(t) == IF t = "SubCommand" THEN "CreateUserCommand" ELSE None

\* the functions registered as handlers
HandlerFns == {"h1", "h2"}

\* the keyword collaborators a route passes to dispatch
Contexts == {{}, {"uow"}, {"uow", "token_service"}}

\* _handlers = {} of both classes
NoHandlers == [b \in Buses |-> [t \in MessageTypes |-> None]]

\* the last registration or dispatch: what was asked and what came of it
NoDispatch ==
    [op |-> "", bus |-> "", type |-> "", func |-> None, kwargs |-> {},
     outcome |-> "", called |-> <<>>, result |-> <<>>]

\* a decorator that replaces the handler of a type already registered
handler_overwrite(_handlers, message_type, func) ==
    [_handlers |-> [_handlers EXCEPT ![message_type] = func], outcome |-> "registered"]

\* CommandBus.handler(command_type)(func) and QueryBus.handler(query_type)(func)
handler(_handlers, message_type, func) ==
    IF _handlers[message_type] # None
        THEN [_handlers |-> _handlers, outcome |-> "DuplicateHandlerError"]
        ELSE [_handlers |-> [_handlers EXCEPT ![message_type] = func],
              outcome |-> "registered"]

\* a dispatch that falls back to the handler of the base type
dispatch_base(_handlers, message_type, kwargs, raises) ==
    LET found == IF _handlers[message_type] # None \/ BaseOf(message_type) = None
                     THEN _handlers[message_type]
                     ELSE _handlers[BaseOf(message_type)]
    IN
    IF found = None
        THEN [outcome |-> "HandlerNotFoundError", called |-> <<>>, result |-> <<>>]
        ELSE [outcome |-> IF raises THEN "raised" ELSE "returned",
              called |-> <<[handler |-> found, message |-> message_type,
                            kwargs |-> kwargs]>>,
              result |-> <<found, message_type, IF raises THEN "error" ELSE "result">>]

\* CommandBus.dispatch(command, **kwargs) and QueryBus.dispatch(query, **kwargs) for a
\* message of type message_type; raises is whether the handler called raises
dispatch(_handlers, message_type, kwargs, raises) ==
    LET found == _handlers[message_type] IN
    IF found = None
        THEN [outcome |-> "HandlerNotFoundError", called |-> <<>>, result |-> <<>>]
        ELSE [outcome |-> IF raises THEN "raised" ELSE "returned",
              called |-> <<[handler |-> found, message |-> message_type,
                            kwargs |-> kwargs]>>,
              result |-> <<found, message_type, IF raises THEN "error" ELSE "result">>]

\* the result dict of a coercion that returned nothing
NoValues == <<>>

\* a call of the form helpers: the arguments, which pair of helpers ran ("": none
\* yet), the errors validation returned, whether the coercion raised and the dict
\* it returned if it did not
NoFormCall ==
    [fields |-> <<>>, raw |-> EmptyRaw, helpers |-> "", errors |-> NoErrors,
     raises |-> FALSE, value |-> NoValues]

\* the variables of the application layer before any command or registration
AppAtStart ==
    /\ uow = UowIdle
    /\ handlers = NoHandlers
    /\ dispatched = NoDispatch
    /\ form_call = NoFormCall

\* a call of compute_pagination: the arguments, and the dict returned ("called")
NoPaging ==
    [page |-> 1, page_size |-> 1, total_count |-> 0, called |-> FALSE,
     offset |-> 0, total_pages |-> 0, has_prev |-> FALSE, has_next |-> FALSE]

\* the characters a resource name is made of: a lowercase letter, a digit, the
\* hyphen, an uppercase letter and the newline
NameChars == {"a", "1", "-", "A", "\n"}

\* [a-z0-9]
SlugChars == {"a", "1"}

\* the automaton of _SLUG_RE = ^[a-z0-9]+(?:-[a-z0-9]+)*$ from position i of name in
\* state q: "start" before a group, "group" inside one. Python's $ matches at the
\* end of the string and before a newline that ends the string.
RECURSIVE SlugRun(_, _, _)
SlugRun(name, i, q) ==
    IF i > Len(name) THEN q = "group"
    ELSE IF name[i] \in SlugChars THEN SlugRun(name, i + 1, "group")
    ELSE IF name[i] = "-" /\ q = "group" THEN SlugRun(name, i + 1, "start")
    ELSE name[i] = "\n" /\ q = "group" /\ i = Len(name)

\* _SLUG_RE.match(name)
SlugMatch(name) == SlugRun(name, 1, "start")

\* ResourceAdmin.__post_init__: the message of the ValueError raised, or "" when
\* the instance is constructed
__post_init__(name, list_columns, form_fields, id_field) ==
    IF ~SlugMatch(name) THEN "must be lowercase alphanumeric with hyphens"
    ELSE IF list_columns = <<>> THEN "list_columns must not be empty"
    ELSE IF form_fields = <<>> THEN "form_fields must not be empty"
    ELSE IF id_field \notin {list_columns[i] : i \in 1..Len(list_columns)}
                            \cup {form_fields[i].name : i \in 1..Len(form_fields)}
        THEN "id_field must exist in list_columns or form_fields"
    ELSE IF \E i \in 1..Len(form_fields) :
                form_fields[i].field_type = FT_SELECT /\ form_fields[i].choices = <<>>
        THEN "Select field must have choices defined"
    ELSE ""

\* a construction ResourceAdmin(name, ..., list_columns, form_fields, id_field): the
\* arguments, whether it ran, and the error it raised ("": the instance exists)
NoConstruction ==
    [name |-> <<>>, list_columns |-> <<>>, form_fields |-> <<>>, id_field |-> "id",
     pc |-> "args", error |-> ""]

\* AdminSite.register with the later resource replacing the earlier one
register_replace(_resources, resource) ==
    IF \E i \in 1..Len(_resources) : _resources[i].name = resource.name
        THEN [_resources |-> [i \in 1..Len(_resources) |->
                                 IF _resources[i].name = resource.name
                                     THEN resource ELSE _resources[i]],
              outcome |-> "returned"]
        ELSE [_resources |-> Append(_resources, resource), outcome |-> "returned"]

\* AdminSite.register(resource) on the dict _resources, kept as the sequence of its
\* values in insertion order
register(_resources, resource) ==
    IF \E i \in 1..Len(_resources) : _resources[i].name = resource.name
        THEN [_resources |-> _resources, outcome |-> "ValueError"]
        ELSE [_resources |-> Append(_resources, resource), outcome |-> "returned"]

\* AdminSite.get_resources(): list(self._resources.values())
get_resources(_resources) == _resources

\* AdminSite.get_router() with no check of the registry
get_router_unchecked(_resources) == "router"

\* AdminSite.get_router(): the router with the routes of the seven builders, or the
\* RuntimeError
get_router(_resources) == IF _resources = <<>> THEN "RuntimeError" ELSE "router"

\* a call of a method of the AdminSite: the method, its argument, the registry
\* before it, how it ended and what it returned; the register calls that returned
\* so far, and whether mount has included the router in the app
NoSiteCall ==
    [op |-> "", resource |-> NoResource, name |-> "", before |-> <<>>,
     outcome |-> "", result |-> <<>>, accepted |-> <<>>, mounted |-> FALSE]

\* the requests whose commands are handled at once, each with its own SqlUnitOfWork
Workers == {"a", "b"}

\* the writes of an open transaction: per token the state it wrote, "" for none
NoWrites == [t \in RefreshTokenIds |-> ""]

\* the committed rows, and per worker its command, where its handler is, the
\* repository call its body is at, the writes of its transaction, the exception
\* its body raised and how the handler ended
NoTxs ==
    [db |-> NoRows,
     w |-> [p \in Workers |-> [cmd |-> NoCommand, pc |-> "idle", k |-> 0,
                               writes |-> NoWrites, exc |-> NoError,
                               outcome |-> NoError]]]

\* the rows a statement of a transaction sees: the committed rows under its own
\* writes
ViewOf(db, writes) ==
    [db EXCEPT !.tokens = [t \in RefreshTokenIds |->
                              IF writes[t] # "" THEN writes[t] ELSE db.tokens[t]]]

\* the writes after a statement that turned the rows seen into rows
WritesOf(writes, seen, rows) ==
    [t \in RefreshTokenIds |->
        IF rows.tokens[t] # seen.tokens[t] THEN rows.tokens[t] ELSE writes[t]]

\* the variables of the calls made outside a request, before any call
LibAtStart ==
    /\ paging = NoPaging
    /\ constructed = NoConstruction
    /\ site_call = NoSiteCall
    /\ txs = NoTxs

(* ------------------------------- state --------------------------------- *)

\* the requests a browser can have in flight at once
Requests == {"a", "b"}

\* a request of the browser: where it is, the session SessionMiddleware loaded for
\* it, the token that session held when loaded, the token get_csrf_token returned
\* and what validate_csrf said to the POST of the form rendered with that token
NotSent ==
    [pc |-> "start", session |-> EmptySession, loaded |-> NoToken, token |-> NoToken,
     accepted |-> Unchecked]

SeedData == [name |-> StrVal("Al"), role |-> StrVal("admin")]

\* what the guards of a handler read of the state the request arrives in
Before(s, st, p) ==
    [admin_user_id |-> s.admin_user_id, csrf_token |-> s.csrf_token,
     store |-> st, provider |-> p]

Init ==
    /\ session = EmptySession
    /\ store = [i \in RecordIds |-> IF i = "1" THEN Record(SeedData) ELSE NoRecord]
    /\ provider = [u \in UserIds |-> IF u = "1" THEN "admin" ELSE "plain"]
    /\ registry = <<UsersResource>>
    /\ req = NoRequest
    /\ pre = Before(EmptySession,
                     [i \in RecordIds |-> IF i = "1" THEN Record(SeedData) ELSE NoRecord],
                     [u \in UserIds |-> IF u = "1" THEN "admin" ELSE "plain"])
    /\ resp = NoResponse
    /\ calls = <<>>
    /\ csrf_checked = Unchecked
    /\ cookie = EmptySession
    /\ inflight = [r \in Requests |-> NotSent]
    /\ AppAtStart
    /\ LibAtStart

\* one request served: the handler's result becomes the state
Serve(rq, h) ==
    /\ pre' = Before(session, store, provider)
    /\ req' = rq
    /\ session' = h.session
    /\ store' = h.store
    /\ resp' = h.resp
    /\ calls' = h.calls
    /\ csrf_checked' = h.csrf_checked
    /\ UNCHANGED <<provider, registry>>
    /\ UNCHANGED cookie_vars
    /\ UNCHANGED app_vars
    /\ UNCHANGED lib_vars

LoginPage ==
    LET rq == Get("login") IN Serve(rq, login_page(session, store, provider, registry, rq))

LoginSubmit ==
    \E c \in Credentials :
        LET rq == [Post("login") EXCEPT !.cred = c]
        IN Serve(rq, login_submit(session, store, provider, registry, rq))

Logout ==
    LET rq == Get("logout") IN Serve(rq, logout(session, store, provider, registry, rq))

Dashboard ==
    LET rq == Get("dashboard")
    IN Serve(rq, dashboard(session, store, provider, registry, rq))

ResourceList ==
    \E rq \in ListRequests :
        Serve(rq, resource_list(session, store, provider, registry, rq))

ResourceDetail ==
    \E rq \in RecordRequests("detail") :
        Serve(rq, resource_detail(session, store, provider, registry, rq))

ResourceCreateForm ==
    \E n \in {"users", Unregistered} :
        LET rq == [Get("create") EXCEPT !.resource_name = n]
        IN Serve(rq, resource_create_form(session, store, provider, registry, rq))

ResourceCreateSubmit ==
    \E rq \in CreateRequests(store) :
        Serve(rq, resource_create_submit(session, store, provider, registry, rq))

ResourceEditForm ==
    \E rq \in RecordRequests("edit") :
        Serve(rq, resource_edit_form(session, store, provider, registry, rq))

ResourceEditSubmit ==
    \E rq \in EditRequests :
        Serve(rq, resource_edit_submit(session, store, provider, registry, rq))

ResourceDeleteConfirm ==
    \E rq \in RecordRequests("delete") :
        Serve(rq, resource_delete_confirm(session, store, provider, registry, rq))

ResourceDeleteSubmit ==
    \E rq \in DeleteRequests :
        Serve(rq, resource_delete_submit(session, store, provider, registry, rq))

\* a request of the session during which get_csrf_token(request) is called (no view
\* of the admin package calls it); the token it returns is kept in resp
GetCsrfToken ==
    \E t \in Tokens :
        /\ pre' = Before(session, store, provider)
        /\ req' = Get("get_csrf_token")
        /\ session' = get_csrf_token(session, t).session
        /\ resp' = [NoResponse EXCEPT
                       !.html.csrf_token = get_csrf_token(session, t).token]
        /\ calls' = <<>>
        /\ csrf_checked' = Unchecked
        /\ UNCHANGED <<store, provider, registry>>
        /\ UNCHANGED cookie_vars
        /\ UNCHANGED app_vars
        /\ UNCHANGED lib_vars

\* the auth provider's own data changes: the admin loses the privilege, or the
\* account is removed
ProviderUpdate ==
    \E level \in {"plain", "gone"} :
        /\ provider["1"] = "admin"
        /\ pre' = Before(session, store, provider)
        /\ req' = Get("provider")
        /\ provider' = [provider EXCEPT !["1"] = level]
        /\ resp' = NoResponse
        /\ calls' = <<>>
        /\ csrf_checked' = Unchecked
        /\ UNCHANGED <<session, store, registry>>
        /\ UNCHANGED cookie_vars
        /\ UNCHANGED app_vars
        /\ UNCHANGED lib_vars

Next ==
    \/ LoginPage
    \/ LoginSubmit
    \/ Logout
    \/ Dashboard
    \/ ResourceList
    \/ ResourceDetail
    \/ ResourceCreateForm
    \/ ResourceCreateSubmit
    \/ ResourceEditForm
    \/ ResourceEditSubmit
    \/ ResourceDeleteConfirm
    \/ ResourceDeleteSubmit
    \/ GetCsrfToken
    \/ ProviderUpdate

Spec == Init /\ [][Next]_vars

(* ----------------------- concurrent requests --------------------------- *)
(* SessionMiddleware keeps the session in a signed cookie: each request    *)
(* gets its own dict decoded from the cookie it carries, the handler works *)
(* on that dict, and the response carries the dict back as the new cookie. *)

\* SessionMiddleware.__call__: scope["session"] is decoded from the request's cookie
SessionLoad(r) ==
    /\ inflight[r].pc = "start"
    /\ inflight' = [inflight EXCEPT ![r] = [pc |-> "handler", session |-> cookie,
                                           loaded |-> cookie.csrf_token,
                                           token |-> NoToken, accepted |-> Unchecked]]
    /\ UNCHANGED cookie
    /\ UNCHANGED admin_vars
    /\ UNCHANGED app_vars
    /\ UNCHANGED lib_vars

\* the handler of the request calls get_csrf_token(request) and renders the form
IssueToken(r) ==
    \E t \in Tokens :
        LET got == get_csrf_token(inflight[r].session, t) IN
        /\ inflight[r].pc = "handler"
        /\ inflight' = [inflight EXCEPT ![r].pc = "send", ![r].session = got.session,
                                        ![r].token = got.token]
        /\ UNCHANGED cookie
        /\ UNCHANGED admin_vars
        /\ UNCHANGED app_vars
        /\ UNCHANGED lib_vars

\* SessionMiddleware send_wrapper: the response sets the cookie to the request's dict
SessionSave(r) ==
    /\ inflight[r].pc = "send"
    /\ cookie' = inflight[r].session
    /\ inflight' = [inflight EXCEPT ![r].pc = "done"]
    /\ UNCHANGED admin_vars
    /\ UNCHANGED app_vars
    /\ UNCHANGED lib_vars

\* after all the responses, the form the request rendered is posted with its token
SubmitForm(r) ==
    /\ \A q \in Requests : inflight[q].pc \in {"done", "posted"}
    /\ inflight[r].pc = "done"
    /\ inflight' = [inflight EXCEPT
                       ![r].pc = "posted",
                       ![r].accepted = IF validate_csrf(cookie, inflight[r].token)
                                           THEN CsrfAccepts ELSE CsrfRejects]
    /\ UNCHANGED cookie
    /\ UNCHANGED admin_vars
    /\ UNCHANGED app_vars
    /\ UNCHANGED lib_vars

InitConcurrent ==
    /\ session = EmptySession
    /\ store = [i \in RecordIds |-> IF i = "1" THEN Record(SeedData) ELSE NoRecord]
    /\ provider = [u \in UserIds |-> IF u = "1" THEN "admin" ELSE "plain"]
    /\ registry = <<UsersResource>>
    /\ req = NoRequest
    /\ pre = Before(EmptySession,
                     [i \in RecordIds |-> IF i = "1" THEN Record(SeedData) ELSE NoRecord],
                     [u \in UserIds |-> IF u = "1" THEN "admin" ELSE "plain"])
    /\ resp = NoResponse
    /\ calls = <<>>
    /\ csrf_checked = Unchecked
    /\ \E t \in SubmittedTokens :
           cookie = [admin_user_id |-> "1", csrf_token |-> t, flash |-> NoFlash]
    /\ inflight = [r \in Requests |-> NotSent]
    /\ AppAtStart
    /\ LibAtStart

NextConcurrent ==
    \/ \E r \in Requests : SessionLoad(r)
    \/ \E r \in Requests : IssueToken(r)
    \/ \E r \in Requests : SessionSave(r)
    \/ \E r \in Requests : SubmitForm(r)

SpecConcurrent == InitConcurrent /\ [][NextConcurrent]_vars

(* --------------------- validate_csrf on its inputs --------------------- *)

\* what a session and a form field can hold as a token
AnyTokens == Tokens \cup {NoToken, EmptyToken}

\* the sessions validate_csrf can be called on
SessionInputs ==
    {[admin_user_id |-> u, csrf_token |-> t, flash |-> f] :
        u \in {None, "1"}, t \in AnyTokens,
        f \in {NoFlash, [type |-> "success",
                         message |-> [text |-> "Record created.", exc |-> NoExc]]}}

InitValidate ==
    /\ session \in SessionInputs
    /\ store = [i \in RecordIds |-> IF i = "1" THEN Record(SeedData) ELSE NoRecord]
    /\ provider = [u \in UserIds |-> IF u = "1" THEN "admin" ELSE "plain"]
    /\ registry = <<UsersResource>>
    /\ \E t \in AnyTokens :
           req = [Post("validate_csrf") EXCEPT !.form.csrf_token = t]
    /\ pre = Before(EmptySession,
                     [i \in RecordIds |-> IF i = "1" THEN Record(SeedData) ELSE NoRecord],
                     [u \in UserIds |-> IF u = "1" THEN "admin" ELSE "plain"])
    /\ resp = NoResponse
    /\ calls = <<>>
    /\ csrf_checked = Unchecked
    /\ cookie = EmptySession
    /\ inflight = [r \in Requests |-> NotSent]
    /\ AppAtStart
    /\ LibAtStart

\* validate_csrf(request, submitted_token) is called: it reads the session
ValidateCsrf ==
    /\ csrf_checked = Unchecked
    /\ csrf_checked' = IF validate_csrf(session, req.form.csrf_token)
                           THEN CsrfAccepts ELSE CsrfRejects
    /\ pre' = Before(session, store, provider)
    /\ UNCHANGED <<session, store, provider, registry, req, resp, calls>>
    /\ UNCHANGED cookie_vars
    /\ UNCHANGED app_vars
    /\ UNCHANGED lib_vars

NextValidate == ValidateCsrf

SpecValidate == InitValidate /\ [][NextValidate]_vars

(* ------------------- command handlers in a unit of work ----------------- *)

\* the admin panel and the browser before any request
AdminAtStart ==
    /\ session = EmptySession
    /\ store = [i \in RecordIds |-> IF i = "1" THEN Record(SeedData) ELSE NoRecord]
    /\ provider = [u \in UserIds |-> IF u = "1" THEN "admin" ELSE "plain"]
    /\ registry = <<UsersResource>>
    /\ req = NoRequest
    /\ pre = Before(EmptySession,
                     [i \in RecordIds |-> IF i = "1" THEN Record(SeedData) ELSE NoRecord],
                     [u \in UserIds |-> IF u = "1" THEN "admin" ELSE "plain"])
    /\ resp = NoResponse
    /\ calls = <<>>
    /\ csrf_checked = Unchecked
    /\ cookie = EmptySession
    /\ inflight = [r \in Requests |-> NotSent]

InitUow ==
    /\ AdminAtStart
    /\ AppAtStart
    /\ LibAtStart

\* a route dispatches a command: its handler starts with a new SqlUnitOfWork
HandlerCalled ==
    /\ uow.pc \in {"idle", "done"}
    /\ \E cmd \in Commands(uow.db) : uow' = handler_called(uow, cmd)
    /\ UNCHANGED <<handlers, dispatched, form_call>>
    /\ UNCHANGED admin_vars
    /\ UNCHANGED cookie_vars
    /\ UNCHANGED lib_vars

\* "async with uow:" is entered
UowEnter ==
    /\ uow.pc = "enter"
    /\ \E opened \in BOOLEAN : uow' = aenter(uow, opened)
    /\ UNCHANGED <<handlers, dispatched, form_call>>
    /\ UNCHANGED admin_vars
    /\ UNCHANGED cookie_vars
    /\ UNCHANGED lib_vars

\* the body makes its next repository call
UowBody ==
    /\ uow.pc = "body"
    /\ \E fails \in BOOLEAN : uow' = body_step(uow, fails)
    /\ UNCHANGED <<handlers, dispatched, form_call>>
    /\ UNCHANGED admin_vars
    /\ UNCHANGED cookie_vars
    /\ UNCHANGED lib_vars

\* the block is left, by its end or by the exception
UowExit ==
    /\ uow.pc = "exit"
    /\ \E tx_ok \in BOOLEAN : uow' = aexit(uow, tx_ok)
    /\ UNCHANGED <<handlers, dispatched, form_call>>
    /\ UNCHANGED admin_vars
    /\ UNCHANGED cookie_vars
    /\ UNCHANGED lib_vars

NextUow ==
    \/ HandlerCalled
    \/ UowEnter
    \/ UowBody
    \/ UowExit

SpecUow == InitUow /\ [][NextUow]_vars

(* ------------------------ the buses in a process ----------------------- *)

InitBus ==
    /\ AdminAtStart
    /\ AppAtStart
    /\ LibAtStart

\* a module applies the handler decorator of a bus to a function
Register ==
    \E b \in Buses, t \in MessageTypes, f \in HandlerFns :
        LET r == handler(handlers[b], t, f) IN
        /\ handlers' = [handlers EXCEPT ![b] = r._handlers]
        /\ dispatched' = [NoDispatch EXCEPT !.op = "register", !.bus = b, !.type = t,
                                            !.func = f, !.outcome = r.outcome]
        /\ UNCHANGED <<uow, form_call>>
        /\ UNCHANGED admin_vars
        /\ UNCHANGED cookie_vars
        /\ UNCHANGED lib_vars

\* a route dispatches a message on a bus
Dispatch ==
    \E b \in Buses, t \in MessageTypes, kw \in Contexts, raises \in BOOLEAN :
        LET r == dispatch(handlers[b], t, kw, raises) IN
        /\ dispatched' = [NoDispatch EXCEPT !.op = "dispatch", !.bus = b, !.type = t,
                                            !.kwargs = kw, !.outcome = r.outcome,
                                            !.called = r.called, !.result = r.result]
        /\ UNCHANGED <<uow, handlers, form_call>>
        /\ UNCHANGED admin_vars
        /\ UNCHANGED cookie_vars
        /\ UNCHANGED lib_vars

NextBus ==
    \/ Register
    \/ Dispatch

SpecBus == InitBus /\ [][NextBus]_vars

(* ----------------------- the form helpers alone ------------------------ *)

\* field configurations a resource can declare
FieldChoices ==
    { FieldConfig("name", FT_TEXT, TRUE, <<>>, FALSE),
      FieldConfig("age", FT_NUMBER, TRUE, <<>>, FALSE),
      FieldConfig("age", FT_NUMBER, FALSE, <<>>, TRUE),
      FieldConfig("role", FT_SELECT, FALSE, << <<"admin", "Admin">> >>, FALSE),
      FieldConfig("flag", FT_BOOLEAN, TRUE, <<>>, FALSE) }

\* form_fields of one or two fields
FieldLists ==
    {<<f>> : f \in FieldChoices} \cup {<<f, g>> : f \in FieldChoices, g \in FieldChoices}

\* the values a browser submits for a field
SubmittedStrings == {"", " 7 ", "1e3", "inf", "a.b", "admin"}

\* the submissions: any of the fields present or missing
RawInputs ==
    UNION {[keys -> SubmittedStrings] : keys \in SUBSET {"name", "age", "role", "flag"}}

InitForms ==
    /\ AdminAtStart
    /\ LibAtStart
    /\ uow = UowIdle
    /\ handlers = NoHandlers
    /\ dispatched = NoDispatch
    /\ \E fields \in FieldLists, raw \in RawInputs :
           form_call = [NoFormCall EXCEPT !.fields = fields, !.raw = raw]

\* validate_form and coerce_form_data of views/forms.py on the arguments
SharedHelpers ==
    /\ form_call.helpers = ""
    /\ form_call' =
           [form_call EXCEPT
               !.helpers = "shared",
               !.errors = validate_form(form_call.fields, form_call.raw),
               !.raises = coerce_form_data(form_call.fields, form_call.raw).raises,
               !.value = LET r == coerce_form_data(form_call.fields, form_call.raw)
                         IN IF r.raises THEN NoValues ELSE r.value]
    /\ UNCHANGED <<uow, handlers, dispatched>>
    /\ UNCHANGED admin_vars
    /\ UNCHANGED cookie_vars
    /\ UNCHANGED lib_vars

\* _validate_form and _coerce_form_data of views/resource_create.py on the arguments
PrivateHelpers ==
    /\ form_call.helpers = ""
    /\ form_call' =
           [form_call EXCEPT
               !.helpers = "private",
               !.errors = _validate_form(form_call.fields, form_call.raw),
               !.raises = _coerce_form_data(form_call.fields, form_call.raw).raises,
               !.value = LET r == _coerce_form_data(form_call.fields, form_call.raw)
                         IN IF r.raises THEN NoValues ELSE r.value]
    /\ UNCHANGED <<uow, handlers, dispatched>>
    /\ UNCHANGED admin_vars
    /\ UNCHANGED cookie_vars
    /\ UNCHANGED lib_vars

NextForms ==
    \/ SharedHelpers
    \/ PrivateHelpers

SpecForms == InitForms /\ [][NextForms]_vars

(* ------------------------ compute_pagination alone --------------------- *)

\* page >= 1 (resource_list raises a smaller page to 1), any page_size, total_count >= 0
InitPagination ==
    /\ AdminAtStart
    /\ AppAtStart
    /\ \E page \in 1..MaxPage, page_size \in -1..MaxPageSize, total_count \in 0..MaxCount :
           paging = [NoPaging EXCEPT !.page = page, !.page_size = page_size,
                                     !.total_count = total_count]
    /\ constructed = NoConstruction
    /\ site_call = NoSiteCall
    /\ txs = NoTxs

\* compute_pagination(page, page_size, total_count) returns its dict
ComputePagination ==
    /\ ~paging.called
    /\ LET r == compute_pagination(paging.page, paging.page_size, paging.total_count)
       IN paging' = [paging EXCEPT !.called = TRUE, !.offset = r.offset,
                                   !.total_pages = r.total_pages,
                                   !.has_prev = r.has_prev, !.has_next = r.has_next]
    /\ UNCHANGED <<constructed, site_call, txs>>
    /\ UNCHANGED admin_vars
    /\ UNCHANGED cookie_vars
    /\ UNCHANGED app_vars

NextPagination == ComputePagination

SpecPagination == InitPagination /\ [][NextPagination]_vars

(* -------------------- the construction of a resource ------------------- *)

\* names of up to MaxNameLen characters
Names == UNION {[1..n -> NameChars] : n \in 0..MaxNameLen}

\* column names (ColumnConfig.name) a resource can list
ColumnLists == {<<>>, <<"id">>, <<"id", "name">>}

\* form fields a resource can declare; a select field with and without choices
FormFieldLists ==
    { <<>>,
      <<FieldConfig("name", FT_TEXT, TRUE, <<>>, FALSE)>>,
      <<FieldConfig("role", FT_SELECT, TRUE, <<>>, FALSE)>>,
      <<FieldConfig("name", FT_TEXT, TRUE, <<>>, FALSE),
        FieldConfig("role", FT_SELECT, TRUE, << <<"admin", "Admin">> >>, FALSE)>> }

IdFields == {"id", "name", "pk"}

InitResource ==
    /\ AdminAtStart
    /\ AppAtStart
    /\ paging = NoPaging
    /\ site_call = NoSiteCall
    /\ txs = NoTxs
    /\ \E name \in Names, list_columns \in ColumnLists, form_fields \in FormFieldLists,
          id_field \in IdFields :
           constructed = [NoConstruction EXCEPT !.name = name,
                                                !.list_columns = list_columns,
                                                !.form_fields = form_fields,
                                                !.id_field = id_field]

\* ResourceAdmin(...) runs __post_init__ on the arguments
Construct ==
    /\ constructed.pc = "args"
    /\ constructed' =
           [constructed EXCEPT
               !.pc = "done",
               !.error = __post_init__(constructed.name, constructed.list_columns,
                                       constructed.form_fields, constructed.id_field)]
    /\ UNCHANGED <<paging, site_call, txs>>
    /\ UNCHANGED admin_vars
    /\ UNCHANGED cookie_vars
    /\ UNCHANGED app_vars

NextResource == Construct

SpecResource == InitResource /\ [][NextResource]_vars

(* ------------------------- the site's registry ------------------------- *)

\* the resources an application registers: two of the name "users"
SiteResources ==
    {UsersResource, [UsersResource EXCEPT !.page_size = 2],
     [UsersResource EXCEPT !.name = Unregistered]}

\* AdminSite(): no resource registered
InitSite ==
    /\ session = EmptySession
    /\ store = [i \in RecordIds |-> IF i = "1" THEN Record(SeedData) ELSE NoRecord]
    /\ provider = [u \in UserIds |-> IF u = "1" THEN "admin" ELSE "plain"]
    /\ registry = <<>>
    /\ req = NoRequest
    /\ pre = Before(session, store, provider)
    /\ resp = NoResponse
    /\ calls = <<>>
    /\ csrf_checked = Unchecked
    /\ cookie = EmptySession
    /\ inflight = [r \in Requests |-> NotSent]
    /\ AppAtStart
    /\ LibAtStart

\* the fields of site_call a call starts from
SiteCall(op) ==
    [NoSiteCall EXCEPT !.op = op, !.before = registry,
                       !.accepted = site_call.accepted, !.mounted = site_call.mounted]

\* what the other variables do during a call of a method of the site
SiteFrame ==
    /\ UNCHANGED <<session, store, provider, req, pre, resp, calls, csrf_checked>>
    /\ UNCHANGED <<paging, constructed, txs>>
    /\ UNCHANGED cookie_vars
    /\ UNCHANGED app_vars

\* site.register(resource)
SiteRegister ==
    \E resource \in SiteResources :
        LET r == register(registry, resource) IN
        /\ registry' = r._resources
        /\ site_call' = [SiteCall("register") EXCEPT
                            !.resource = resource, !.outcome = r.outcome,
                            !.accepted = IF r.outcome = "returned"
                                             THEN Append(@, resource) ELSE @]
        /\ SiteFrame

\* site.get_resources()
SiteGetResources ==
    /\ site_call' = [SiteCall("get_resources") EXCEPT
                        !.outcome = "returned", !.result = get_resources(registry)]
    /\ UNCHANGED registry
    /\ SiteFrame

\* site.get_resource(name)
SiteGetResource ==
    \E name \in {"users", Unregistered} :
        /\ site_call' = [SiteCall("get_resource") EXCEPT
                            !.name = name, !.outcome = "returned",
                            !.result = <<get_resource(registry, name)>>]
        /\ UNCHANGED registry
        /\ SiteFrame

\* site.get_router()
SiteGetRouter ==
    LET r == get_router(registry) IN
    /\ site_call' = [SiteCall("get_router") EXCEPT
                        !.outcome = IF r = "RuntimeError" THEN r ELSE "returned",
                        !.result = IF r = "RuntimeError" THEN <<>> ELSE <<r>>]
    /\ UNCHANGED registry
    /\ SiteFrame

\* site.mount(app): include_router(self.get_router()), then the static files and
\* the session middleware
SiteMount ==
    LET r == get_router(registry) IN
    /\ ~site_call.mounted
    /\ site_call' = [SiteCall("mount") EXCEPT
                        !.outcome = IF r = "RuntimeError" THEN r ELSE "returned",
                        !.result = IF r = "RuntimeError" THEN <<>> ELSE <<r>>,
                        !.mounted = r # "RuntimeError"]
    /\ UNCHANGED registry
    /\ SiteFrame

\* the mounted app serves a request
SiteRequest ==
    /\ site_call.mounted
    /\ \/ LoginSubmit
       \/ Dashboard
       \/ ResourceList

NextSite ==
    \/ SiteRegister
    \/ SiteGetResources
    \/ SiteGetResource
    \/ SiteGetRouter
    \/ SiteMount
    \/ SiteRequest

SpecSite == InitSite /\ [][NextSite]_vars

(* --------------------- two refresh commands at once -------------------- *)

\* the refresh token both requests carry, stored unrevoked
SharedToken == "r1"

\* the token id create_refresh_token draws for each request
NewTokenOf(p) == IF p = "a" THEN "r2" ELSE "r3"

InitRefresh ==
    /\ AdminAtStart
    /\ AppAtStart
    /\ paging = NoPaging
    /\ constructed = NoConstruction
    /\ site_call = NoSiteCall
    /\ txs = [NoTxs EXCEPT !.db = SaveToken(SaveUser(NoRows, "a@x", "pw1"), SharedToken)]

RefreshFrame ==
    /\ UNCHANGED <<paging, constructed, site_call>>
    /\ UNCHANGED admin_vars
    /\ UNCHANGED cookie_vars
    /\ UNCHANGED app_vars

\* the unit of work of a worker as aenter and aexit take it
UowOf(p) ==
    [UowIdle EXCEPT !.cmd = txs.w[p].cmd, !.pc = txs.w[p].pc, !.k = txs.w[p].k,
                    !.db = txs.db, !.tx = ViewOf(txs.db, txs.w[p].writes),
                    !.before = txs.db, !.exc = txs.w[p].exc]

\* a request dispatches RefreshTokenCommand with the shared token, which decodes;
\* its handler gets a SqlUnitOfWork of its own
RefreshCalled(p) ==
    /\ txs.w[p].pc = "idle"
    /\ LET cmd == [NoCommand EXCEPT !.type = "refresh", !.token = SharedToken,
                                    !.jwt = "refresh", !.new_token = NewTokenOf(p)]
           u == handler_called([UowIdle EXCEPT !.db = txs.db], cmd)
       IN txs' = [txs EXCEPT !.w[p].cmd = cmd, !.w[p].pc = u.pc]
    /\ RefreshFrame

\* "async with uow:" opens the worker's transaction
RefreshEnter(p) ==
    /\ txs.w[p].pc = "enter"
    /\ \E opened \in BOOLEAN :
           LET u == aenter(UowOf(p), opened)
           IN txs' = [txs EXCEPT !.w[p].pc = u.pc, !.w[p].k = u.k,
                                 !.w[p].outcome = u.outcome]
    /\ RefreshFrame

\* the next repository call of the worker's body, on the committed rows under its
\* own writes; a write to a row that another open transaction has written waits
\* for that transaction to end, or fails as any call can
RefreshBody(p) ==
    /\ txs.w[p].pc = "body"
    /\ \E fails \in BOOLEAN :
           LET seen == ViewOf(txs.db, txs.w[p].writes)
               u == body_step(UowOf(p), fails)
               writes == WritesOf(txs.w[p].writes, seen, u.tx)
               written == {t \in RefreshTokenIds : writes[t] # txs.w[p].writes[t]}
                              \cup (IF ~fails /\ txs.w[p].k = 2
                                        THEN {txs.w[p].cmd.token} ELSE {})
           IN  /\ \A q \in Workers \ {p} : \A t \in written :
                      txs.w[q].pc \in {"body", "exit"} => txs.w[q].writes[t] = ""
               /\ txs' = [txs EXCEPT !.w[p].pc = u.pc, !.w[p].k = u.k,
                                     !.w[p].writes = writes, !.w[p].exc = u.exc]
    /\ RefreshFrame

\* the block is left: the transaction commits the worker's writes or is rolled back
RefreshExit(p) ==
    /\ txs.w[p].pc = "exit"
    /\ \E tx_ok \in BOOLEAN :
           LET u == aexit(UowOf(p), tx_ok)
           IN txs' = [txs EXCEPT !.db = u.db, !.w[p].pc = u.pc,
                                 !.w[p].outcome = u.outcome]
    /\ RefreshFrame

NextRefresh ==
    \E p \in Workers :
        \/ RefreshCalled(p)
        \/ RefreshEnter(p)
        \/ RefreshBody(p)
        \/ RefreshExit(p)

SpecRefresh == InitRefresh /\ [][NextRefresh]_vars

(* ---------------------- one unit of work, reused ---------------------- *)

InitScope ==
    /\ AdminAtStart
    /\ AppAtStart
    /\ LibAtStart

ScopeFrame ==
    /\ UNCHANGED <<handlers, dispatched, form_call>>
    /\ UNCHANGED admin_vars
    /\ UNCHANGED cookie_vars
    /\ UNCHANGED lib_vars

\* "async with uow:" on the same SqlUnitOfWork, again after it was left
ScopeEnter ==
    /\ uow.pc \in {"idle", "done"}
    /\ uow.entered < MaxEnters
    /\ \E opened \in BOOLEAN :
           uow' = aenter([uow EXCEPT !.exc = NoError, !.outcome = NoError], opened)
    /\ ScopeFrame

\* the block ends or raises, and __aexit__ runs
ScopeExit ==
    /\ uow.pc = "body"
    /\ \E exc \in {NoError, "ConflictError"}, tx_ok \in BOOLEAN :
           uow' = aexit([uow EXCEPT !.exc = exc], tx_ok)
    /\ ScopeFrame

\* uow.user_repository or uow.refresh_token_repository is read
ScopeRead ==
    /\ \E property \in {"user_repository", "refresh_token_repository"} :
           uow' = [uow EXCEPT !.read = [property |-> property, pc |-> uow.pc,
                                        result |-> repository(uow, property)]]
    /\ ScopeFrame

NextScope ==
    \/ ScopeEnter
    \/ ScopeExit
    \/ ScopeRead

SpecScope == InitScope /\ [][NextScope]_vars

(* ------------------------------- claims -------------------------------- *)

ProtectedRoutes == {"dashboard", "list", "detail", "create", "edit", "delete"}

Mutations == {"create", "update", "delete"}

IsPost(routes) == req.method = "POST" /\ req.route \in routes

IsGet(routes) == req.method = "GET" /\ req.route \in routes

\* the request arrived in a session of a user the provider resolves to an admin
AdminBefore ==
    pre.admin_user_id # None /\ pre.provider[pre.admin_user_id] = "admin"

IsRegistered == \E i \in 1..Len(registry) : registry[i].name = req.resource_name

Mutated == \E i \in 1..Len(calls) : calls[i].op \in Mutations

MutationRaised == \E i \in 1..Len(calls) : calls[i].op \in Mutations /\ calls[i].raised

MutationReturned == \E i \in 1..Len(calls) : calls[i].op \in Mutations /\ ~calls[i].raised

\* the submitted token is missing or is not the token of the session
TokenBad ==
    req.form.csrf_token = NoToken \/ req.form.csrf_token # pre.csrf_token

FormErrors == ErrorsOf(UsersFields, req.form.data)

\* C1: on a POST to create, edit or delete of a registered resource the DAO's
\* create, update or delete is called only after validate_csrf returned true for
\* the request, and never when the submitted token is missing or does not match.
C1_DaoOnlyAfterCsrf ==
    (IsPost({"create", "edit", "delete"}) /\ IsRegistered /\ Mutated)
        => (csrf_checked = CsrfAccepts /\ ~TokenBad)

\* C2: on every protected route a request whose session does not hold the id of a
\* user the provider resolves to an admin gets the 303 redirect to {prefix}/login
\* and no DAO method is called.
C2_GuardedRoutes ==
    (req.route \in ProtectedRoutes /\ ~AdminBefore)
        => (resp = RedirectResponse(LoginUrl) /\ calls = <<>> /\ store = pre.store)

\* a stale session (its user lost the privilege) was turned away from a POST
C2_Witness ==
    /\ IsPost({"edit", "delete", "create"})
    /\ pre.admin_user_id # None
    /\ ~AdminBefore
    /\ resp.status = 303
    /\ session = EmptySession

\* C3: after a GET of the create form, the edit form or the delete confirmation, the
\* POST to the same resource and record that carries the token the page rendered,
\* valid fields and an existing record is accepted: the DAO's create, update or
\* delete runs and the response is the 303 redirect to the list page (create,
\* delete) or the detail page (edit).
C3_RenderedTokenAccepted ==
    [][ ( /\ IsGet({"create", "edit", "delete"})
          /\ resp.status = 200
          /\ req'.method = "POST"
          /\ req'.route = req.route
          /\ req'.resource_name = req.resource_name
          /\ req'.record_id = req.record_id
          /\ req'.form.csrf_token = resp.html.csrf_token
          /\ req'.fail = NoExc
          /\ (req.route # "delete" =>
                 DOMAIN ErrorsOf(UsersFields, req'.form.data) = {}) )
        => ( /\ \E i \in 1..Len(calls') : calls'[i] = Call(
                    CASE req.route = "create" -> "create"
                      [] req.route = "edit" -> "update"
                      [] OTHER -> "delete", FALSE)
             /\ resp'.status = 303
             /\ resp'.location =
                    IF req.route = "edit"
                        THEN <<prefix, req.resource_name, req.record_id>>
                        ELSE <<prefix, req.resource_name, "">> ) ]_vars

C5_InvalidFormRerendered ==
    ( /\ AdminBefore /\ IsRegistered
      /\ (IsPost({"create"}) \/ (IsPost({"edit"}) /\ ~TokenBad))
      /\ DOMAIN FormErrors # {} )
        => /\ resp.status = 200
           /\ resp.html.template = "admin/form.html"
           /\ resp.html.errors = FormErrors
           /\ calls = <<>>
           /\ store = pre.store

\* a submission with a blank required name was re-rendered with the message
C5_Witness ==
    /\ AdminBefore /\ IsRegistered
    /\ IsPost({"create", "edit"})
    /\ req.form.data.name = ""
    /\ resp.status = 200
    /\ "name" \in DOMAIN resp.html.errors
    /\ resp.html.errors["name"] = "This field is required."

RecordMissing == ~pre.store[req.record_id].present

\* C6 as stated: on detail, edit and delete, GET and POST, a record id the DAO does
\* not hold gets a 404 and no update or delete is attempted.
C6_MissingRecordAlways404 ==
    (req.route \in {"detail", "edit", "delete"} /\ AdminBefore /\ IsRegistered
        /\ RecordMissing)
        => (resp.status = 404 /\ ~Mutated)

\* C6, amended: the GET views (detail, edit form, delete confirmation) answer 404
\* after dao.get and attempt no update or delete; the POST handlers of edit and
\* delete never look the record up and never answer 404: they answer 303 (token
\* rejected) or 200 with field errors, or pass the id to the DAO's update or delete,
\* which raises, and answer 200 (edit) or 303 (delete); no record changes.
C6_MissingRecord ==
    /\ (IsGet({"detail", "edit", "delete"}) /\ AdminBefore /\ IsRegistered
            /\ RecordMissing)
           => /\ resp.status = 404
              /\ resp.html.template = "admin/404.html"
              /\ calls = <<Call("get", FALSE)>>
              /\ store = pre.store
    /\ (IsPost({"edit", "delete"}) /\ AdminBefore /\ IsRegistered /\ RecordMissing)
           => /\ store = pre.store
              /\ \A i \in 1..Len(calls) : calls[i].op # "get"
              /\ IF TokenBad THEN resp.status = 303 /\ calls = <<>>
                 ELSE IF req.route = "edit" /\ DOMAIN FormErrors # {}
                     THEN resp.status = 200 /\ calls = <<>>
                 ELSE IF req.route = "edit"
                     THEN resp.status = 200 /\ calls = <<Call("update", TRUE)>>
                 ELSE resp.status = 303 /\ calls = <<Call("delete", TRUE)>>

\* an edit of a missing record was submitted with a good token and a valid form
C6_Witness ==
    /\ IsPost({"edit"}) /\ AdminBefore /\ IsRegistered /\ RecordMissing
    /\ req.fail = NoExc
    /\ calls = <<Call("update", TRUE)>>
    /\ resp.status = 200

\* C7: every resource route, GET and POST, answers an admin's request for a
\* resource name that is not registered with 404 and calls no DAO method.
C7_UnregisteredIs404 ==
    (req.route \in {"list", "detail", "create", "edit", "delete"} /\ AdminBefore
        /\ ~IsRegistered)
        => (resp.status = 404 /\ calls = <<>>)

\* the handler of a request
Handle(rq, s, st, p, reg) ==
    CASE rq.route = "create" /\ rq.method = "POST" ->
             resource_create_submit(s, st, p, reg, rq)
      [] rq.route = "edit" /\ rq.method = "POST" ->
             resource_edit_submit(s, st, p, reg, rq)
      [] OTHER -> resource_delete_submit(s, st, p, reg, rq)

\* C8: when the DAO's create, update or delete raises, the response and the flash
\* left in the session are the same whatever the text of the exception is.
C8_ExceptionTextHidden ==
    [][ ( /\ req'.method = "POST"
          /\ req'.route \in {"create", "edit", "delete"}
          /\ req'.fail \in ExcMsgs
          /\ \E i \in 1..Len(calls') : calls'[i].raised )
        => \A m \in ExcMsgs :
               LET h == Handle([req' EXCEPT !.fail = m], session, store, provider,
                               registry)
               IN h.resp = resp' /\ h.session = session' ]_vars

\* C9: an exception of the DAO's create, update or delete does not leave the POST
\* handler: create and edit answer 200 with the form, delete answers 303, each with
\* an error flash (shown on the page, or left in the session by the redirect), also
\* when delete is submitted for a record id that does not exist; no record changes.
C9_DaoFailureHandled ==
    (IsPost({"create", "edit", "delete"}) /\ MutationRaised)
        => /\ store = pre.store
           /\ IF req.route = "delete"
                  THEN /\ resp.status = 303
                       /\ resp.location = <<prefix, req.resource_name, req.record_id>>
                       /\ session.flash.type = "error"
                  ELSE /\ resp.status = 200
                       /\ resp.html.template = "admin/form.html"
                       /\ resp.html.flash.type = "error"

\* a delete of a record id that does not exist was answered with the redirect
C9_Witness ==
    /\ IsPost({"delete"}) /\ RecordMissing /\ req.fail = NoExc
    /\ calls = <<Call("delete", TRUE)>>
    /\ resp.status = 303
    /\ session.flash.type = "error"

\* C10: a POST to create, edit or delete whose DAO call returns without raising is
\* answered with a 303 redirect carrying a Location, never with a rendered page.
C10_RedirectAfterPost ==
    (IsPost({"create", "edit", "delete"}) /\ MutationReturned)
        => /\ resp.status = 303
           /\ resp.location =
                  IF req.route = "edit"
                      THEN <<prefix, req.resource_name, req.record_id>>
                      ELSE <<prefix, req.resource_name, "">>
           /\ resp.html = NoHtml

\* an edit changed a stored record and was answered with the redirect
C10_Witness ==
    /\ IsPost({"edit"}) /\ MutationReturned
    /\ store # pre.store
    /\ resp.status = 303

\* the path a GET request is routed by (the route decorators of the views)
UrlOf(rq) ==
    CASE rq.route = "dashboard" -> <<prefix, "">>
      [] rq.route = "list" -> <<prefix, rq.resource_name, "">>
      [] rq.route = "detail" -> <<prefix, rq.resource_name, rq.record_id>>
      [] rq.route = "create" -> <<prefix, rq.resource_name, "create">>
      [] rq.route \in {"edit", "delete"} ->
             <<prefix, rq.resource_name, rq.record_id, rq.route>>
      [] OTHER -> <<prefix, rq.route>>

\* the response is a page AdminSite.render produced
Rendered(response) == response.html.template # ""

\* C11 as stated: a flash message set by set_flash is delivered to exactly one
\* render: while the session goes on (same admin_user_id), a message the session
\* holds is still held after the next request, or was shown on the page that request
\* rendered and removed from the session.
C11_FlashDeliveredOnce ==
    [][ (session.flash # NoFlash /\ session.admin_user_id # None
            /\ session'.admin_user_id = session.admin_user_id)
        => \/ (~Rendered(resp') /\ session'.flash = session.flash)
           \/ (Rendered(resp') /\ resp'.html.flash = session.flash
                  /\ session'.flash = NoFlash) ]_vars

\* C11, amended: the session holds at most one flash message, the one of the last
\* set_flash since the last render or session.clear(); a set_flash replaces a message
\* no render has shown.  Every render shows the message the session holds (the one
\* its own handler set, if it set one) and removes it, so the render after it gets
\* none; a request that renders nothing keeps the message, replaces it by set_flash
\* or drops it by clearing the session; and the page a 303 redirect with an outcome
\* flash leads to shows that flash.
C11_FlashOneShot ==
    [][ /\ Rendered(resp') =>
               /\ session'.flash = NoFlash
               /\ \/ resp'.html.flash = session.flash
                  \/ /\ req'.method = "POST" /\ req'.route \in {"create", "edit"}
                     /\ \E i \in 1..Len(calls') : calls'[i].raised
                     /\ resp'.html.flash.type = "error"
        /\ (Rendered(resp) /\ Rendered(resp') /\ req'.method = "GET")
               => resp'.html.flash = NoFlash
        /\ ~Rendered(resp') =>
               \/ session'.flash = session.flash
               \/ resp'.status = 303 /\ session'.flash.type \in {"success", "error"}
               \/ session' = EmptySession
        /\ ( /\ req.method = "POST" /\ resp.status = 303 /\ session.flash # NoFlash
             /\ req'.method = "GET" /\ UrlOf(req') = resp.location )
               => (Rendered(resp') /\ resp'.html.flash = session.flash
                      /\ session'.flash = NoFlash) ]_vars

\* the list page a successful create redirected to showed the success flash once
C11_Witness ==
    /\ IsGet({"list"}) /\ AdminBefore
    /\ resp.status = 200
    /\ resp.html.flash.type = "success"
    /\ resp.html.flash.message.text = "Record created."
    /\ session.flash = NoFlash

\* C12: POST login with credentials the provider authenticates to a principal with
\* is_admin true stores that principal's id as the session's admin_user_id and
\* answers 303 to {prefix}/; with any other credentials (rejected, or a principal
\* that is not admin) it answers 200 with the error message and does not set
\* admin_user_id.
C12_Login ==
    IsPost({"login"}) =>
        IF req.cred = "admin" /\ pre.provider["1"] = "admin"
            THEN /\ session.admin_user_id = "1"
                 /\ resp = RedirectResponse(<<prefix, "">>)
            ELSE /\ resp.status = 200
                 /\ resp.html.template = "admin/login.html"
                 /\ resp.html.error = "Invalid username or password."
                 /\ session.admin_user_id = pre.admin_user_id

\* the credentials of a principal that is not an admin were turned down
C12_Witness ==
    /\ IsPost({"login"})
    /\ req.cred = "nonadmin"
    /\ pre.provider["2"] = "plain"
    /\ pre.admin_user_id = None
    /\ resp.status = 200
    /\ resp.html.error = "Invalid username or password."
    /\ session.admin_user_id = None

\* C13: after GET logout, and after require_admin finds that the stored user id no
\* longer resolves to an admin principal, the session is empty (no admin_user_id, no
\* CSRF token, no flash) and the response is the 303 redirect to the login page;
\* from then on every protected route answers with that redirect and the session
\* gets an admin_user_id only by a successful POST login.
C13_LoggedOut ==
    [][ /\ req'.route = "logout" =>
               (session' = EmptySession /\ resp' = RedirectResponse(LoginUrl))
        /\ ( /\ req'.route \in ProtectedRoutes
             /\ session.admin_user_id # None
             /\ provider[session.admin_user_id] # "admin" )
               => (session' = EmptySession /\ resp' = RedirectResponse(LoginUrl)
                      /\ calls' = <<>> /\ store' = store)
        /\ (session.admin_user_id = None /\ req'.route \in ProtectedRoutes)
               => (resp' = RedirectResponse(LoginUrl) /\ session'.admin_user_id = None
                      /\ calls' = <<>> /\ store' = store)
        /\ (session.admin_user_id = None /\ session'.admin_user_id # None)
               => (req'.route = "login" /\ req'.method = "POST" /\ resp'.status = 303
                      /\ provider[session'.admin_user_id] = "admin") ]_vars

\* a session that held a CSRF token was emptied when its user had lost the privilege
C13_Witness ==
    /\ IsGet(ProtectedRoutes)
    /\ pre.admin_user_id # None
    /\ pre.csrf_token # NoToken
    /\ pre.provider[pre.admin_user_id] = "plain"
    /\ session = EmptySession
    /\ resp = RedirectResponse(LoginUrl)

\* both requests were sent with the cookie of a session that held no CSRF token
BothLoadedTokenless ==
    \A r \in Requests : inflight[r].pc \notin {"start", "handler"}
                            /\ inflight[r].loaded = NoToken

\* C14: when two requests of the same session, which holds no CSRF token yet, call
\* get_csrf_token concurrently, both obtain the same token and the session ends up
\* storing exactly that one token, so the form rendered by either request is
\* accepted by a later POST.
C14_ConcurrentIssuance ==
    BothLoadedTokenless =>
        /\ \A r, q \in Requests :
               (inflight[r].pc # "send" /\ inflight[q].pc # "send")
                   => (inflight[r].token = inflight[q].token
                          /\ cookie.csrf_token = inflight[r].token)
        /\ \A r \in Requests :
               inflight[r].pc = "posted" => inflight[r].accepted = CsrfAccepts

\* C15: get_csrf_token is idempotent on a session: the first call on a session
\* without a token stores a new token and returns it; every later call returns the
\* token the session holds and leaves the session unchanged; and the token stays in
\* the session across the requests in between until the session is cleared.
C15_TokenIdempotent ==
    [][ /\ (req'.route = "get_csrf_token" /\ session.csrf_token = NoToken)
               => /\ resp'.html.csrf_token \in Tokens
                  /\ session' = [session EXCEPT !.csrf_token = resp'.html.csrf_token]
        /\ (req'.route = "get_csrf_token" /\ session.csrf_token # NoToken)
               => /\ resp'.html.csrf_token = session.csrf_token
                  /\ session' = session
        /\ session.csrf_token # NoToken
               => \/ session'.csrf_token = session.csrf_token
                  \/ session' = EmptySession ]_vars

\* a second call, requests later, returned the token the first call had stored
C15_Witness ==
    /\ req.route = "get_csrf_token"
    /\ pre.csrf_token \in Tokens
    /\ resp.html.csrf_token = pre.csrf_token
    /\ session.csrf_token = pre.csrf_token
    /\ pre.admin_user_id # None
    /\ pre.store # [i \in RecordIds |-> IF i = "1" THEN Record(SeedData) ELSE NoRecord]

LeftScope == uow.pc = "done" /\ uow.entered > 0

\* a handler that enters the unit of work exits it exactly once on every path
ExitsOnce ==
    /\ uow.entered <= 1
    /\ uow.exited <= uow.entered
    /\ uow.pc \in {"body", "exit"} => (uow.entered = 1 /\ uow.exited = 0)
    /\ uow.pc = "done" => uow.exited = uow.entered

\* C17 as stated: every command handler that enters the unit of work exits it
\* exactly once on every path; the writes made inside the scope are all committed
\* when the body completes without error and none of them is persisted when the
\* body raises.
C17_CommitOrRollback ==
    /\ ExitsOnce
    /\ (LeftScope /\ uow.exc = NoError) => uow.db = uow.tx
    /\ (LeftScope /\ uow.exc # NoError) => uow.db = uow.before

\* C17, amended: every command handler that enters the unit of work exits it exactly
\* once on every path; nothing is persisted before the exit; the writes made inside
\* the scope are all committed when the body completes without error and the
\* transaction's own exit succeeds (the handler returns), and none of them is
\* persisted when the body raises or when the transaction's exit fails, which
\* __aexit__ raises as DatabaseError (for register: when saving the refresh token
\* fails, the new user is not persisted).
C17_UnitOfWork ==
    /\ ExitsOnce
    /\ uow.pc \in {"enter", "body", "exit"} => uow.db = uow.before
    /\ (LeftScope /\ uow.outcome = "returned") => (uow.exc = NoError /\ uow.db = uow.tx)
    /\ (LeftScope /\ uow.outcome # "returned") => uow.db = uow.before
    /\ (LeftScope /\ uow.exc # NoError) => uow.outcome # "returned"
    /\ (LeftScope /\ uow.exc = NoError /\ uow.outcome # "returned")
           => uow.outcome = "DatabaseError"
    /\ (LeftScope /\ uow.cmd.type = "register" /\ uow.failed_at = 3)
           => uow.db.users[uow.cmd.email] = Absent

\* register saved the user, saving the refresh token failed, the user is not stored
C17_Witness ==
    /\ LeftScope
    /\ uow.cmd.type = "register"
    /\ uow.failed_at = 3
    /\ uow.tx.users[uow.cmd.email] = uow.cmd.password
    /\ uow.db.users[uow.cmd.email] = Absent
    /\ uow.exited = 1
    /\ uow.outcome = "DatabaseError"

\* C18: on each bus, independently of the other bus, at most one handler is ever
\* registered per message type: a registration for a type that has a handler raises
\* DuplicateHandlerError and leaves the registry as it was, a registration for a
\* type without one stores the function on that bus only, the handler of a type
\* stays the first one registered, and dispatch never changes a registry.
C18_WriteOnceRegistry ==
    [][ /\ \A b \in Buses, t \in MessageTypes :
               handlers[b][t] # None => handlers'[b][t] = handlers[b][t]
        /\ dispatched'.op = "register" =>
               /\ \A b \in Buses \ {dispatched'.bus} : handlers'[b] = handlers[b]
               /\ \A t \in MessageTypes \ {dispatched'.type} :
                      handlers'[dispatched'.bus][t] = handlers[dispatched'.bus][t]
               /\ IF handlers[dispatched'.bus][dispatched'.type] # None
                      THEN /\ dispatched'.outcome = "DuplicateHandlerError"
                           /\ handlers' = handlers
                      ELSE /\ dispatched'.outcome = "registered"
                           /\ handlers'[dispatched'.bus][dispatched'.type]
                                  = dispatched'.func
        /\ dispatched'.op = "dispatch" => handlers' = handlers ]_vars

\* a second function was offered for a type whose handler is on the command bus
\* only, and was refused
C18_Witness ==
    /\ dispatched.op = "register"
    /\ dispatched.outcome = "DuplicateHandlerError"
    /\ dispatched.bus = "command"
    /\ handlers["command"][dispatched.type] \in HandlerFns \ {dispatched.func}
    /\ handlers["query"][dispatched.type] = None

\* C19: dispatch(message, **context) raises HandlerNotFoundError when no handler
\* has been registered on that bus for exactly the message's type (a handler for
\* another type, for a base type or on the other bus does not match), and otherwise
\* calls the registered handler once with the message and the supplied keyword
\* collaborators and returns its result or propagates its error.
C19_Dispatch ==
    dispatched.op = "dispatch" =>
        IF handlers[dispatched.bus][dispatched.type] = None
            THEN /\ dispatched.outcome = "HandlerNotFoundError"
                 /\ dispatched.called = <<>>
            ELSE /\ dispatched.called =
                        <<[handler |-> handlers[dispatched.bus][dispatched.type],
                           message |-> dispatched.type,
                           kwargs |-> dispatched.kwargs]>>
                 /\ dispatched.outcome \in {"returned", "raised"}
                 /\ dispatched.result[1] = handlers[dispatched.bus][dispatched.type]
                 /\ dispatched.result[3] =
                        IF dispatched.outcome = "returned" THEN "result" ELSE "error"

\* a message of the subclass was dispatched on the command bus, which has a handler
\* for the base class only, while the query bus has one for the subclass
C19_Witness ==
    /\ dispatched.op = "dispatch"
    /\ dispatched.bus = "command"
    /\ dispatched.type = "SubCommand"
    /\ handlers["command"]["CreateUserCommand"] # None
    /\ handlers["command"]["SubCommand"] = None
    /\ handlers["query"]["SubCommand"] # None
    /\ dispatched.outcome = "HandlerNotFoundError"

\* C20: for every field list and raw submission, validate_form returns an empty
\* mapping if and only if coerce_form_data on the same arguments completes without
\* raising, for the shared helpers used by edit and for the private copies used by
\* create.
C20_ValidIffCoerces ==
    form_call.helpers \in {"shared", "private"} =>
        (DOMAIN form_call.errors = {} <=> ~form_call.raises)


\* the arguments of the call of the form helpers, and its results
CallFields == form_call.fields
CallRaw == form_call.raw
Submitted(field) == Strip(RawGet(CallRaw, field.name))
ErrorOn(name) == IF name \in DOMAIN form_call.errors THEN form_call.errors[name] ELSE ""

\* the field's name is the name of no field that is not readonly
OnlyReadonly(field) ==
    \A j \in 1..Len(CallFields) : CallFields[j].name = field.name => CallFields[j].readonly

\* C21: validate_form gives each non-readonly field at most one message, with v the
\* stripped submitted value: "required" if the field is required, not boolean and v
\* is blank; otherwise "must be a number" if the field is a number and v is
\* non-blank and does not parse; otherwise "invalid choice" if the field is a select
\* and v is non-blank and none of its choice values; otherwise no entry. A readonly
\* field gets no entry, and the empty mapping means valid.
C21_ValidateForm ==
    form_call.helpers = "shared" =>
        \A i \in 1..Len(CallFields) :
            LET field == CallFields[i]
                v == Submitted(field)
            IN  IF field.readonly
                    THEN OnlyReadonly(field) => field.name \notin DOMAIN form_call.errors
                ELSE IF field.required /\ field.field_type # FT_BOOLEAN /\ v = ""
                    THEN ErrorOn(field.name) = "This field is required."
                ELSE IF field.field_type = FT_NUMBER /\ v # "" /\ v \notin FloatStrings
                    THEN ErrorOn(field.name) = "Must be a number."
                ELSE IF field.field_type = FT_SELECT /\ v # ""
                        /\ \A c \in 1..Len(field.choices) : field.choices[c][1] # v
                    THEN ErrorOn(field.name) = "Invalid choice."
                ELSE field.name \notin DOMAIN form_call.errors

\* a number that does not parse and a choice that is not configured, in one call
C21_Witness ==
    /\ form_call.helpers = "shared"
    /\ Len(CallFields) = 2
    /\ CallFields[1].field_type = FT_NUMBER
    /\ CallFields[2].field_type = FT_SELECT
    /\ DOMAIN form_call.errors = {"age", "role"}
    /\ form_call.errors["age"] = "Must be a number."
    /\ form_call.errors["role"] = "Invalid choice."
    /\ CallRaw["role"] = "1e3"

\* the strings that contain an exponent marker
ExponentStrings == {"1e3"}

ValueOf(name) == IF name \in DOMAIN form_call.value THEN form_call.value[name] ELSE Raised

\* C22: coerce_form_data returns exactly one entry per non-readonly field and none
\* for readonly fields: for a boolean field, true iff the name is a key of raw; for
\* a number field with a non-blank value, an integer when the string contains no
\* decimal or exponent marker and a float otherwise; for any other non-blank value,
\* the stripped string; for a blank value, null if the field is optional and the
\* empty string if it is required. Stated of the shared helper and of the copy in
\* the create view, on the submissions validation accepts.
C22_CoerceFormData ==
    (form_call.helpers \in {"shared", "private"} /\ DOMAIN form_call.errors = {}) =>
        /\ ~form_call.raises
        /\ DOMAIN form_call.value =
               {CallFields[i].name : i \in {j \in 1..Len(CallFields) : ~CallFields[j].readonly}}
        /\ \A i \in 1..Len(CallFields) :
               LET field == CallFields[i]
                   v == Submitted(field)
               IN  ~field.readonly =>
                       ValueOf(field.name) =
                           IF field.field_type = FT_BOOLEAN
                               THEN BoolVal(field.name \in DOMAIN CallRaw)
                           ELSE IF field.field_type = FT_NUMBER /\ v # ""
                               THEN IF v \in DotStrings \cup ExponentStrings
                                        THEN FloatVal(v) ELSE IntVal(v)
                           ELSE IF v # "" THEN StrVal(v)
                           ELSE IF field.required THEN StrVal("") ELSE NoneVal

\* ceil(total_count / page_size) for page_size > 0: the least n with n pages of
\* page_size holding total_count records
CeilDiv(total_count, page_size) ==
    CHOOSE n \in 0..total_count :
        /\ n * page_size >= total_count
        /\ \A m \in 0..total_count : m * page_size >= total_count => n <= m

\* C23: compute_pagination(page, page_size, total_count) returns
\* offset = (page - 1) * page_size, total_pages = max(1, ceil(total_count / page_size))
\* when page_size > 0 and 1 otherwise, has_prev = (page > 1) and
\* has_next = (page < total_pages), for every page >= 1, total_count >= 0 and
\* page_size, with page not clamped.
C23_Pagination ==
    paging.called =>
        LET c == IF paging.page_size > 0
                     THEN CeilDiv(paging.total_count, paging.page_size) ELSE 1
            total_pages == IF c > 1 THEN c ELSE 1
        IN  /\ paging.offset = (paging.page - 1) * paging.page_size
            /\ paging.total_pages = total_pages
            /\ paging.has_prev = (paging.page > 1)
            /\ paging.has_next = (paging.page < total_pages)

\* the second of three pages, the last of them partly filled
C23_Witness ==
    /\ paging.called
    /\ paging.page = 2 /\ paging.page_size = 3 /\ paging.total_count = 7
    /\ paging.offset = 3 /\ paging.total_pages = 3
    /\ paging.has_prev /\ paging.has_next

\* the instance of a construction that raised nothing
Constructed == constructed.pc = "done" /\ constructed.error = ""

\* lowercase alphanumeric groups separated by single hyphens
IsSlug(name) ==
    /\ Len(name) > 0
    /\ \A i \in 1..Len(name) :
           \/ name[i] \in SlugChars
           \/ name[i] = "-" /\ 1 < i /\ i < Len(name) /\ name[i - 1] \in SlugChars
                            /\ name[i + 1] \in SlugChars

\* what the claim requires of the arguments of a ResourceAdmin
WellFormed(c) ==
    /\ IsSlug(c.name)
    /\ c.list_columns # <<>>
    /\ c.form_fields # <<>>
    /\ \/ \E i \in 1..Len(c.list_columns) : c.list_columns[i] = c.id_field
       \/ \E i \in 1..Len(c.form_fields) : c.form_fields[i].name = c.id_field
    /\ \A i \in 1..Len(c.form_fields) :
           c.form_fields[i].field_type = FT_SELECT => Len(c.form_fields[i].choices) > 0

\* C24: every ResourceAdmin that is successfully constructed has a name made of
\* lowercase alphanumeric groups separated by single hyphens, a non-empty
\* list_columns, a non-empty form_fields, an id_field that names one of its columns
\* or form fields, and a non-empty choices list on every SELECT field; a
\* construction that violates any of these raises and yields no resource.
C24_ResourceInvariants ==
    constructed.pc = "done" => (constructed.error = "" <=> WellFormed(constructed))

\* no resource name occurs twice in the sequence
NamesDistinct(rs) ==
    \A i \in 1..Len(rs), j \in 1..Len(rs) : rs[i].name = rs[j].name => i = j

\* the resource of that name among rs, or NoResource
Named(rs, name) ==
    IF \E i \in 1..Len(rs) : rs[i].name = name
        THEN rs[CHOOSE i \in 1..Len(rs) : rs[i].name = name]
        ELSE NoResource

\* the state after a call of the site, seen from the register calls that returned
SiteCallOk ==
    /\ registry = site_call.accepted
    /\ NamesDistinct(registry)
    /\ site_call.op = "register" =>
           /\ site_call.outcome = "ValueError" <=>
                  \E i \in 1..Len(site_call.before) :
                      site_call.before[i].name = site_call.resource.name
           /\ site_call.outcome = "ValueError" => registry = site_call.before
           /\ site_call.outcome = "returned" =>
                  registry = Append(site_call.before, site_call.resource)
    /\ site_call.op = "get_resources" => site_call.result = site_call.accepted
    /\ site_call.op = "get_resource" =>
           LET got == site_call.result[1] IN
           /\ got.found <=> \E i \in 1..Len(site_call.accepted) :
                                site_call.accepted[i].name = site_call.name
           /\ got.resource = Named(site_call.accepted, site_call.name)

\* C25: after any sequence of register calls, get_resources() is the list of the
\* successfully registered resources in the order of their registration, with no
\* name repeated; a register call whose name is already present raises and leaves
\* the registry unchanged; get_resource(name) returns the resource registered under
\* that name or None; no request handler changes the registry.
C25_Registry ==
    [][ /\ SiteCallOk'
        /\ req' # req => registry' = registry ]_vars

\* a second resource of a registered name was refused, and the two registered
\* resources are listed in their order
C25_Witness ==
    /\ site_call.op = "get_resources"
    /\ Len(site_call.result) = 2
    /\ site_call.result[1].name = Unregistered
    /\ site_call.result[2] = [UsersResource EXCEPT !.page_size = 2]
    /\ site_call.mounted
    /\ req # NoRequest

\* C26: get_router, and therefore mount, raises when no resource has been
\* registered on the site, and builds the admin routes when at least one resource is
\* registered.
C26_GetRouter ==
    site_call.op \in {"get_router", "mount"} =>
        IF site_call.before = <<>>
            THEN /\ site_call.outcome = "RuntimeError"
                 /\ site_call.result = <<>>
                 /\ ~site_call.mounted
            ELSE /\ site_call.outcome = "returned"
                 /\ site_call.result = <<"router">>
                 /\ site_call.op = "mount" => site_call.mounted

\* mount on the empty site raised
C26_Witness ==
    /\ site_call.op = "mount"
    /\ registry = <<>>
    /\ site_call.outcome = "RuntimeError"
    /\ ~site_call.mounted

\* the handler of the command has ended, by returning or by raising
Handled(type) == uow.pc = "done" /\ uow.cmd.type = type

\* the committed record of the submitted token was revoked when the command arrived
Reused == uow.before.tokens[uow.cmd.token] = "revoked"

\* no revoked record is ever unrevoked or removed
RevokedForGood ==
    \A t \in RefreshTokenIds :
        uow.db.tokens[t] = "revoked" => uow'.db.tokens[t] = "revoked"

\* a refresh or a logout that returned leaves the submitted token revoked (a logout
\* only if it was stored), and the refresh stores its replacement unrevoked
UsedUp ==
    /\ (Handled("refresh") /\ uow.outcome = "returned") =>
           /\ uow.before.tokens[uow.cmd.token] = "active"
           /\ uow.db.tokens[uow.cmd.token] = "revoked"
           /\ uow.db.tokens[uow.cmd.new_token] = "active"
    /\ (Handled("logout") /\ uow.outcome = "returned"
            /\ uow.before.tokens[uow.cmd.token] = "active") =>
           uow.db = RevokeToken(uow.before, uow.cmd.token)
    /\ (Handled("logout") /\ uow.before.tokens[uow.cmd.token] # "active") =>
           uow.db = uow.before

\* the command ended in an error of the database: a repository call or the commit
\* raised DatabaseError, or the engine opened no transaction
DatabaseFailed == uow.outcome \in {"DatabaseError", "Exception"}

\* C27 as stated: a refresh token is single-use: after a successful refresh with
\* token R, or after a logout with R, R's stored record is revoked and every later
\* refresh with R fails with TOKEN_REVOKED, issuing no tokens and storing no new
\* record; the replacement token is stored unrevoked, and a logout with an unknown
\* or already revoked token succeeds without changing anything. R is a refresh
\* token, so a later command carries it as one that decodes as a refresh token or
\* no longer decodes; commands the database fails are left aside.
C27_FailsAsRevoked ==
    [][ /\ RevokedForGood
        /\ UsedUp'
        /\ (Handled("refresh") /\ Reused /\ uow.cmd.jwt # "access" /\ ~DatabaseFailed)' =>
               (uow.outcome = "TOKEN_REVOKED" /\ uow.db = uow.before)'
        /\ (Handled("logout") /\ uow.before.tokens[uow.cmd.token] # "active"
                /\ ~DatabaseFailed)' =>
               (uow.outcome = "returned")' ]_vars

\* C27, amended: after a refresh or a logout with R that returned, R's stored record
\* is revoked and stays revoked, and every later refresh with R fails, issuing no
\* tokens and storing no new record: with TOKEN_REVOKED when R still decodes and the
\* database answers, with INVALID_TOKEN when R no longer decodes, and with the
\* database's error otherwise. The replacement token of a refresh that returned is
\* stored unrevoked, and a logout with an unknown or already revoked token changes
\* nothing and returns unless the database fails.
C27_SingleUse ==
    [][ /\ RevokedForGood
        /\ UsedUp'
        /\ (Handled("refresh") /\ Reused)' =>
               /\ (uow.db = uow.before)'
               /\ (uow.outcome # "returned")'
               /\ (uow.cmd.jwt # "refresh")' => (uow.outcome = "INVALID_TOKEN")'
               /\ (uow.cmd.jwt = "refresh" /\ ~DatabaseFailed)' =>
                      (uow.outcome = "TOKEN_REVOKED")'
        /\ (Handled("logout") /\ uow.before.tokens[uow.cmd.token] # "active"
                /\ ~DatabaseFailed)' =>
               (uow.outcome = "returned")' ]_vars

\* a refresh with a token that an earlier command revoked failed as revoked, while
\* the replacement of the earlier refresh is stored unrevoked
C27_Witness ==
    /\ Handled("refresh")
    /\ Reused
    /\ uow.outcome = "TOKEN_REVOKED"
    /\ uow.db = uow.before
    /\ \E t \in RefreshTokenIds : uow.db.tokens[t] = "active"

\* both handlers have ended
BothHandled == \A p \in Workers : txs.w[p].pc = "done"

\* the handler returned the new token pair
Issued(p) == txs.w[p].outcome = "returned"

\* C28: when two refresh commands carrying the same valid, unrevoked refresh token
\* run concurrently, each in its own unit of work, at most one of them issues a new
\* token pair; the other fails with TOKEN_REVOKED (or, when a database call fails,
\* with the database's error).
C28_OneRefreshWins ==
    BothHandled =>
        \A p \in Workers : \A q \in Workers \ {p} :
            Issued(p) => txs.w[q].outcome \in {"TOKEN_REVOKED", "DatabaseError", "Exception"}

\* C29: the create view's private _validate_form and _coerce_form_data return the
\* same results, and raise in the same cases, as the shared validate_form and
\* coerce_form_data used by the edit view, for every field list and raw submission.
C29_SameHelpers ==
    form_call.helpers = "private" =>
        LET shared == coerce_form_data(CallFields, CallRaw) IN
        /\ form_call.errors = validate_form(CallFields, CallRaw)
        /\ form_call.raises = shared.raises
        /\ ~shared.raises => form_call.value = shared.value

\* C30: the repositories of a SqlUnitOfWork are accessible only while the unit of
\* work is entered: reading user_repository or refresh_token_repository before
\* __aenter__ or after __aexit__ raises "UnitOfWork not entered", in every state
\* reachable by entering and exiting the unit of work any number of times.
C30_OnlyWhileEntered ==
    uow.read # NoRead => (uow.read.result = "RuntimeError" <=> uow.read.pc # "body")

====
